---- MODULE Spec2Model ----
(***************************************************************************)
(* A model of the background scheduling core of CocoroCore2.               *)
(*                                                                         *)
(* Part 1: OptimizationScheduler (src/src/core/optimization_scheduler.py). *)
(* The scheduler lives on one asyncio event loop: every action below is    *)
(* the code that runs between two suspension points (await) of one         *)
(* coroutine, or one whole synchronous method call.                        *)
(***************************************************************************)
EXTENDS Integers, Sequences, FiniteSets

(***************************************************************************)
(* Configuration values read in __init__ (small values; the defaults of    *)
(* the source are 3600 s, 50 and 3).  The wall clock advances in steps of  *)
(* one second.                                                             *)
(***************************************************************************)
auto_optimize_interval == 1
auto_optimize_threshold == 2
max_concurrent_optimizations == 2
enable_background_optimization == TRUE

\* stop() waits at most this many one-second sleeps for running optimizations
\* (30 in the source)
StopGraceTicks == 2

(***************************************************************************)
(* Bounds of the model.                                                    *)
(***************************************************************************)
\* a subject's counter is not driven above MaxCount by notify_memory_added
MaxCount == 3
\* tasks alive at once (queued, created or awaiting the optimizer)
MaxTasks == 3

Users == {"alice", "bob"}

\* optimization types a caller of force_optimization passes
ForceTypes == {"full", "dedup"}

\* what awaiting scheduler_manager.optimize_text_memory can end in:
\* a result with success true, a result with success false, an exception
OptimizerOutcomes == {"success", "failure", "raise"}

VARIABLES
    is_running,               \* self.is_running
    optimization_tasks,       \* self.optimization_tasks: asyncio.Queue (FIFO, unbounded)
    user_memory_counts,       \* self.user_memory_counts: dict user_id -> int
    last_optimization_times,  \* self.last_optimization_times: dict (insertion ordered);
                              \* a datetime is kept as the time elapsed since it
    running_optimizations,    \* self.running_optimizations: set of user_id
    created,                  \* per user_id: task coroutines created, body not yet begun
    awaiting,                 \* per user_id: task coroutines awaiting the optimizer
    workerPc,                 \* where _optimization_worker is suspended
    periodicPc,               \* where _periodic_scheduler is suspended
    periodicLeft,             \* what is left of its asyncio.sleep(auto_optimize_interval)
    stopPc,                   \* where the call of stop() is
    wait_count                \* stop()'s local wait_count

schedVars == <<is_running, optimization_tasks, user_memory_counts,
               last_optimization_times, running_optimizations, created, awaiting,
               workerPc, periodicPc, periodicLeft, stopPc, wait_count>>

----------------------------------------------------------------------------
\* dataclass OptimizationTask (created_time and scheduled_time are never read)
OptimizationTask(user_id, optimization_type, priority) ==
    [user_id |-> user_id, optimization_type |-> optimization_type,
     priority |-> priority]

(***************************************************************************)
(* The coroutines made by asyncio.create_task(_execute_optimization_task)  *)
(* are counted per user_id, the only field of the task their code reads    *)
(* apart from handing optimization_type to the optimizer: "created" until  *)
(* the event loop runs their first step, then "awaiting" the optimizer.    *)
(* Whether a created coroutine begins before the worker's next get()       *)
(* returns depends on the asyncio version (wait_for yields to the loop     *)
(* up to Python 3.11 and not from 3.12 on), so both orders are possible.   *)
(***************************************************************************)
RECURSIVE SumOver(_, _)
SumOver(f, S) ==
    IF S = {} THEN 0
    ELSE LET x == CHOOSE y \in S : TRUE IN f[x] + SumOver(f, S \ {x})

\* number of task coroutines alive
ExecCount == SumOver(created, Users) + SumOver(awaiting, Users)

\* dict.get(user_id, 0)
CountOf(counts, u) == IF u \in DOMAIN counts THEN counts[u] ELSE 0

\* dict[user_id] = v
DictSet(d, u, v) == [x \in (DOMAIN d) \cup {u} |-> IF x = u THEN v ELSE d[x]]

\* position of user_id in the insertion-ordered dict last_optimization_times, 0 if absent
RECURSIVE IndexOf(_, _, _)
IndexOf(times, u, i) ==
    IF i > Len(times) THEN 0
    ELSE IF times[i].user_id = u THEN i
    ELSE IndexOf(times, u, i + 1)

HasTime(times, u) == IndexOf(times, u, 1) # 0

\* datetime.now() - self.last_optimization_times[user_id]
ElapsedOf(times, u) == times[IndexOf(times, u, 1)].elapsed

\* self.last_optimization_times[user_id] = datetime.now(): an existing key keeps its place
SetNow(times, u) ==
    IF HasTime(times, u)
    THEN [times EXCEPT ![IndexOf(times, u, 1)] = [user_id |-> u, elapsed |-> 0]]
    ELSE Append(times, [user_id |-> u, elapsed |-> 0])

\* the periodic pass compares an elapsed time with twice the interval only, so
\* elapsed times are kept up to one second more than that
ElapsedCap == auto_optimize_interval * 2 + 1

----------------------------------------------------------------------------
SchedInit ==
    /\ is_running = FALSE
    /\ optimization_tasks = <<>>
    /\ user_memory_counts = [u \in {} |-> 0]
    /\ last_optimization_times = <<>>
    /\ running_optimizations = {}
    /\ created = [u \in Users |-> 0]
    /\ awaiting = [u \in Users |-> 0]
    /\ workerPc = "off"
    /\ periodicPc = "off"
    /\ periodicLeft = 0
    /\ stopPc = "idle"
    /\ wait_count = 0

----------------------------------------------------------------------------
(***************************************************************************)
(* _schedule_optimization: the queue after the call.  put_nowait on an     *)
(* unbounded asyncio.Queue never raises QueueFull.                         *)
(***************************************************************************)
_schedule_optimization(queue, user_id, optimization_type, priority) ==
    IF ~is_running THEN queue
    ELSE IF user_id \in running_optimizations THEN queue
    ELSE Append(queue, OptimizationTask(user_id, optimization_type, priority))

(***************************************************************************)
(* start(): creates the worker and the periodic coroutine.  The            *)
(* application starts the scheduler in startup() and stops it in           *)
(* shutdown(): a stopped scheduler is not started again.                   *)
(***************************************************************************)
Start ==
    /\ stopPc = "idle"
    /\ IF is_running \/ ~enable_background_optimization
       THEN UNCHANGED <<is_running, workerPc, periodicPc, periodicLeft>>
       ELSE /\ is_running' = TRUE
            /\ workerPc' = "get"
            /\ periodicPc' = "sleep"
            /\ periodicLeft' = auto_optimize_interval
    /\ UNCHANGED <<optimization_tasks, user_memory_counts, last_optimization_times,
                   running_optimizations, created, awaiting, stopPc, wait_count>>

\* (a variant of ThresholdReached: the comparison made strict)
ThresholdExceeded(current_count) == current_count > auto_optimize_threshold

\* the threshold test of notify_memory_added
ThresholdReached(current_count) == current_count >= auto_optimize_threshold

\* notify_memory_added(user_id)
notify_memory_added(user_id) ==
    /\ CountOf(user_memory_counts, user_id) < MaxCount
    /\ IF ~is_running
       THEN UNCHANGED <<user_memory_counts, optimization_tasks>>
       ELSE LET current_count == CountOf(user_memory_counts, user_id) + 1 IN
            /\ user_memory_counts' = DictSet(user_memory_counts, user_id, current_count)
            /\ optimization_tasks' =
                 IF ThresholdReached(current_count)
                 THEN _schedule_optimization(optimization_tasks, user_id,
                                             "threshold_triggered", 1)
                 ELSE optimization_tasks
    /\ Len(optimization_tasks') + ExecCount <= MaxTasks
    /\ UNCHANGED <<is_running, last_optimization_times, running_optimizations,
                   created, awaiting, workerPc, periodicPc, periodicLeft, stopPc,
                   wait_count>>

\* force_optimization(user_id, optimization_type)
force_optimization(user_id, optimization_type) ==
    /\ optimization_tasks' =
         _schedule_optimization(optimization_tasks, user_id, optimization_type, 2)
    /\ Len(optimization_tasks') + ExecCount <= MaxTasks
    /\ UNCHANGED <<is_running, user_memory_counts, last_optimization_times,
                   running_optimizations, created, awaiting, workerPc, periodicPc,
                   periodicLeft, stopPc, wait_count>>

\* reset_user_memory_count(user_id)
\* (a variant of reset_user_memory_count: the key is written without the
\* membership test)
ResetWithoutMembershipTest(user_id) ==
    /\ user_memory_counts' = DictSet(user_memory_counts, user_id, 0)
    /\ UNCHANGED <<is_running, optimization_tasks, last_optimization_times,
                   running_optimizations, created, awaiting, workerPc, periodicPc,
                   periodicLeft, stopPc, wait_count>>

reset_user_memory_count(user_id) ==
    /\ user_memory_counts' =
         IF user_id \in DOMAIN user_memory_counts
         THEN DictSet(user_memory_counts, user_id, 0)
         ELSE user_memory_counts
    /\ UNCHANGED <<is_running, optimization_tasks, last_optimization_times,
                   running_optimizations, created, awaiting, workerPc, periodicPc,
                   periodicLeft, stopPc, wait_count>>

(***************************************************************************)
(* _optimization_worker, one pass of its loop: the queue's get() returns   *)
(* the head; with the cap reached the task goes back to the tail and the   *)
(* worker sleeps, otherwise a task coroutine is created for it.            *)
(***************************************************************************)
CapReached == Cardinality(running_optimizations) >= max_concurrent_optimizations

WorkerDequeue ==
    /\ workerPc = "get"
    /\ is_running
    /\ optimization_tasks # <<>>
    /\ LET task == Head(optimization_tasks) IN
       IF CapReached
       THEN /\ optimization_tasks' = Append(Tail(optimization_tasks), task)
            /\ workerPc' = "sleep"
            /\ created' = created
       ELSE /\ optimization_tasks' = Tail(optimization_tasks)
            /\ workerPc' = "get"
            /\ created' = [created EXCEPT ![task.user_id] = @ + 1]
    /\ UNCHANGED <<is_running, user_memory_counts, last_optimization_times,
                   running_optimizations, awaiting, periodicPc, periodicLeft,
                   stopPc, wait_count>>

\* the worker's asyncio.sleep(1) after a requeue ends
WorkerWake ==
    /\ workerPc = "sleep"
    /\ workerPc' = "get"
    /\ UNCHANGED <<is_running, optimization_tasks, user_memory_counts,
                   last_optimization_times, running_optimizations, created,
                   awaiting, periodicPc, periodicLeft, stopPc, wait_count>>

(***************************************************************************)
(* _execute_optimization_task, up to its await: marks the subject running  *)
(* and calls the optimizer.                                                *)
(***************************************************************************)
ExecStart(user_id) ==
    /\ created[user_id] > 0
    /\ created' = [created EXCEPT ![user_id] = @ - 1]
    /\ awaiting' = [awaiting EXCEPT ![user_id] = @ + 1]
    /\ running_optimizations' = running_optimizations \cup {user_id}
    /\ UNCHANGED <<is_running, optimization_tasks, user_memory_counts,
                   last_optimization_times, workerPc, periodicPc, periodicLeft,
                   stopPc, wait_count>>

\* (a variant of CountAfter: a failure resets the counter like a success)
CountAfterResetOnFailure(counts, user_id, outcome) ==
    IF outcome = "raise" THEN counts ELSE DictSet(counts, user_id, 0)

\* user_memory_counts after the optimizer's outcome
CountAfter(counts, user_id, outcome) ==
    CASE outcome = "success" -> DictSet(counts, user_id, 0)
      [] outcome = "failure" ->
           LET half == CountOf(counts, user_id) \div 2 IN
           DictSet(counts, user_id, IF half > 0 THEN half ELSE 0)
      [] outcome = "raise" -> counts

\* (a variant of TimesAfter: the time of a success is written only for a
\* subject that has none yet)
TimesAfterFirstOnly(times, user_id, outcome) ==
    IF outcome = "success" /\ ~HasTime(times, user_id)
    THEN SetNow(times, user_id) ELSE times

\* last_optimization_times after the optimizer's outcome
TimesAfter(times, user_id, outcome) ==
    IF outcome = "success" THEN SetNow(times, user_id) ELSE times

\* (a variant of RunningAfter: the subject is not discarded)
RunningAfterKept(running, user_id) == running

\* the finally clause: running_optimizations.discard(user_id)
RunningAfter(running, user_id) == running \ {user_id}

(***************************************************************************)
(* _execute_optimization_task, from the optimizer's answer to its end.     *)
(***************************************************************************)
ExecFinish(user_id, outcome) ==
    /\ awaiting[user_id] > 0
    /\ awaiting' = [awaiting EXCEPT ![user_id] = @ - 1]
    /\ user_memory_counts' = CountAfter(user_memory_counts, user_id, outcome)
    /\ last_optimization_times' = TimesAfter(last_optimization_times, user_id, outcome)
    /\ running_optimizations' = RunningAfter(running_optimizations, user_id)
    /\ UNCHANGED <<is_running, optimization_tasks, created, workerPc, periodicPc,
                   periodicLeft, stopPc, wait_count>>

(***************************************************************************)
(* _periodic_scheduler, one pass after its sleep: a periodic task for      *)
(* every entry of last_optimization_times older than twice the interval.   *)
(***************************************************************************)
PeriodicDue(elapsed) == elapsed > auto_optimize_interval * 2

\* the users the pass iterates over: the keys of last_optimization_times
PeriodicCandidates(times) == times

RECURSIVE PeriodicPass(_, _, _)
PeriodicPass(queue, entries, i) ==
    IF i > Len(entries) THEN queue
    ELSE PeriodicPass(
           IF PeriodicDue(entries[i].elapsed)
           THEN _schedule_optimization(queue, entries[i].user_id, "periodic", 1)
           ELSE queue,
           entries, i + 1)

PeriodicTimerDue == periodicPc = "sleep" /\ periodicLeft = 0

PeriodicTick ==
    /\ PeriodicTimerDue
    /\ is_running
    /\ optimization_tasks' =
         PeriodicPass(optimization_tasks, PeriodicCandidates(last_optimization_times), 1)
    /\ Len(optimization_tasks') + ExecCount <= MaxTasks
    /\ periodicLeft' = auto_optimize_interval
    /\ UNCHANGED <<is_running, user_memory_counts, last_optimization_times,
                   running_optimizations, created, awaiting, workerPc, periodicPc,
                   stopPc, wait_count>>

(***************************************************************************)
(* stop(): clears is_running and cancels both loops, which end at the      *)
(* await they are suspended in; after the gather it waits for              *)
(* running_optimizations to empty, one sleep(1) at a time.                 *)
(***************************************************************************)
Stop ==
    /\ stopPc \in {"idle", "done"}
    /\ IF ~is_running
       THEN UNCHANGED <<is_running, workerPc, periodicPc, stopPc>>
       ELSE /\ is_running' = FALSE
            /\ workerPc' = "off"
            /\ periodicPc' = "off"
            /\ stopPc' = "gather"
    /\ UNCHANGED <<optimization_tasks, user_memory_counts, last_optimization_times,
                   running_optimizations, created, awaiting, periodicLeft,
                   wait_count>>

StopGathered ==
    /\ stopPc = "gather"
    /\ wait_count' = 0
    /\ stopPc' = IF running_optimizations # {} THEN "waiting" ELSE "done"
    /\ UNCHANGED <<is_running, optimization_tasks, user_memory_counts,
                   last_optimization_times, running_optimizations, created,
                   awaiting, workerPc, periodicPc, periodicLeft>>

\* (a variant of StopWaitDone: the wait has no last sleep)
StopWaitUnbounded(count) == ~(running_optimizations # {})

\* the test of the wait loop of stop(), negated
StopWaitDone(count) == ~(running_optimizations # {} /\ count < StopGraceTicks)

StopWaitTick ==
    /\ stopPc = "waiting"
    /\ wait_count' = wait_count + 1
    /\ stopPc' = IF StopWaitDone(wait_count + 1) THEN "done" ELSE "waiting"
    /\ UNCHANGED <<is_running, optimization_tasks, user_memory_counts,
                   last_optimization_times, running_optimizations, created,
                   awaiting, workerPc, periodicPc, periodicLeft>>

\* one second passes; a timer that is due fires before the clock moves on
Tick ==
    /\ ~PeriodicTimerDue
    /\ periodicLeft' = IF periodicPc = "sleep" THEN periodicLeft - 1 ELSE periodicLeft
    /\ last_optimization_times' =
         [i \in 1..Len(last_optimization_times) |->
            [last_optimization_times[i] EXCEPT
               !.elapsed = IF @ < ElapsedCap THEN @ + 1 ELSE @]]
    /\ UNCHANGED <<is_running, optimization_tasks, user_memory_counts,
                   running_optimizations, created, awaiting, workerPc, periodicPc,
                   stopPc, wait_count>>

----------------------------------------------------------------------------
(***************************************************************************)
(* Part 2: SessionManager (src/src/core/session_manager.py).               *)
(*                                                                         *)
(* Its methods are synchronous except start, stop and the cleanup loop;    *)
(* each method is a function of the registry (the session dict and the     *)
(* owner index) and of the clock, written below as an operator that gives  *)
(* the registry after the call and the value returned.  The actions apply  *)
(* these operators to the variables.                                       *)
(***************************************************************************)
\* constructor arguments (small values; the defaults are 300, 1000 and 30)
timeout_seconds == 2
max_sessions == 2
cleanup_interval_seconds == 2

\* the clock of the bounded specification stops at MaxNow
MaxNow == 4
\* a record's request_count is not driven above MaxRequests
MaxRequests == 2

SessionIds == {"s1", "s2", "s3"}

VARIABLES
    sessions,            \* self.sessions: dict session_id -> SessionInfo, as the
                         \* sequence of its values in insertion order
    user_sessions,       \* self.user_sessions: dict user_id -> set of session_id
    session_is_running,  \* SessionManager.is_running
    cleanupPc,           \* where _cleanup_loop is suspended
    cleanupLeft,         \* what is left of its asyncio.sleep(cleanup_interval_seconds)
    now,                 \* datetime.now(), in seconds
    ensured              \* what ensure_session returned to the client of
                         \* TrackedSession the last time

sessVars == <<sessions, user_sessions, session_is_running, cleanupPc, cleanupLeft,
              now, ensured>>

\* None
NoSession == [session_id |-> "None"]

\* SessionInfo.__init__ (is_active is never read back)
SessionInfo(session_id, user_id, t) ==
    [session_id |-> session_id, user_id |-> user_id, created_at |-> t,
     last_activity |-> t, request_count |-> 0]

\* SessionInfo.update_activity
update_activity(session, t) ==
    [session EXCEPT !.last_activity = t, !.request_count = @ + 1]

\* (a variant of is_expired: a record lives one second longer)
IsExpiredLate(session, timeout, t) == t > session.last_activity + timeout + 1

\* SessionInfo.is_expired
is_expired(session, timeout, t) == t > session.last_activity + timeout

\* the registry the methods work on
Registry == [sessions |-> sessions, user_sessions |-> user_sessions]

\* self.sessions.get(session_id)
SessionsGet(ss, session_id) ==
    IF \E i \in 1..Len(ss) : ss[i].session_id = session_id
    THEN ss[CHOOSE i \in 1..Len(ss) : ss[i].session_id = session_id]
    ELSE NoSession

\* del self.sessions[session_id]
SessionsDel(ss, session_id) ==
    SelectSeq(ss, LAMBDA s : s.session_id # session_id)

\* (a variant of OwnerDiscard: an entry that becomes empty is kept)
OwnerDiscardKeepsEmpty(us, user_id, session_id) ==
    IF user_id \notin DOMAIN us THEN us
    ELSE [us EXCEPT ![user_id] = @ \ {session_id}]

\* self.user_sessions[user_id].discard(session_id), the entry deleted when empty
OwnerDiscard(us, user_id, session_id) ==
    IF user_id \notin DOMAIN us THEN us
    ELSE IF us[user_id] \ {session_id} = {}
         THEN [u \in DOMAIN us \ {user_id} |-> us[u]]
         ELSE [us EXCEPT ![user_id] = @ \ {session_id}]

\* self.user_sessions[user_id].add(session_id), the entry made when missing
OwnerAdd(us, user_id, session_id) ==
    [u \in DOMAIN us \cup {user_id} |->
        IF u = user_id
        THEN (IF u \in DOMAIN us THEN us[u] ELSE {}) \cup {session_id}
        ELSE us[u]]

\* remove_session(session_id)
remove_session(reg, session_id) ==
    LET session == SessionsGet(reg.sessions, session_id) IN
    IF session = NoSession
    THEN [reg |-> reg, result |-> FALSE]
    ELSE [reg |-> [sessions |-> SessionsDel(reg.sessions, session_id),
                   user_sessions |-> OwnerDiscard(reg.user_sessions,
                                                  session.user_id, session_id)],
          result |-> TRUE]

\* (a variant of get_session: an expired record is reported as absent and
\* left where it is)
GetSessionWithoutEviction(reg, session_id, t) ==
    LET session == SessionsGet(reg.sessions, session_id) IN
    IF session # NoSession /\ is_expired(session, timeout_seconds, t)
    THEN [reg |-> reg, result |-> NoSession]
    ELSE [reg |-> reg, result |-> session]

\* get_session(session_id)
get_session(reg, session_id, t) ==
    LET session == SessionsGet(reg.sessions, session_id) IN
    IF session # NoSession /\ is_expired(session, timeout_seconds, t)
    THEN [reg |-> remove_session(reg, session_id).reg, result |-> NoSession]
    ELSE [reg |-> reg, result |-> session]

\* (a variant of OldestSession: the first of the values with the greatest key)
NewestSession(ss) ==
    ss[CHOOSE i \in 1..Len(ss) :
          /\ \A j \in 1..Len(ss) : ss[i].last_activity >= ss[j].last_activity
          /\ \A j \in 1..(i - 1) : ss[j].last_activity < ss[i].last_activity]

\* min(self.sessions.values(), key=lambda s: s.last_activity): the first of
\* the values with the least key
OldestSession(ss) ==
    ss[CHOOSE i \in 1..Len(ss) :
          /\ \A j \in 1..Len(ss) : ss[i].last_activity <= ss[j].last_activity
          /\ \A j \in 1..(i - 1) : ss[j].last_activity > ss[i].last_activity]

\* _cleanup_oldest_sessions()
_cleanup_oldest_sessions(reg) ==
    IF reg.sessions = <<>> THEN reg
    ELSE remove_session(reg, OldestSession(reg.sessions).session_id).reg

\* create_session(session_id, user_id)
create_session(reg, session_id, user_id, t) ==
    LET r1 == IF SessionsGet(reg.sessions, session_id) # NoSession
              THEN remove_session(reg, session_id).reg ELSE reg
        r2 == IF Len(r1.sessions) >= max_sessions
              THEN _cleanup_oldest_sessions(r1) ELSE r1
        session == SessionInfo(session_id, user_id, t)
    IN  [reg |-> [sessions |-> Append(r2.sessions, session),
                  user_sessions |-> OwnerAdd(r2.user_sessions, user_id, session_id)],
         result |-> session]

\* the dict after a method of the stored object updated it in place
SessionsPut(ss, session) ==
    [i \in 1..Len(ss) |->
        IF ss[i].session_id = session.session_id THEN session ELSE ss[i]]

\* (a variant of update_session_activity: the record is looked up in the dict
\* directly, without the expiry check of get_session)
UpdateWithoutExpiryCheck(reg, session_id, t) ==
    LET session == SessionsGet(reg.sessions, session_id) IN
    IF session # NoSession
    THEN [reg |-> [reg EXCEPT
                     !.sessions = SessionsPut(@, update_activity(session, t))],
          result |-> TRUE]
    ELSE [reg |-> reg, result |-> FALSE]

\* update_session_activity(session_id)
update_session_activity(reg, session_id, t) ==
    LET got == get_session(reg, session_id, t) IN
    IF got.result # NoSession
    THEN [reg |-> [got.reg EXCEPT
                     !.sessions = SessionsPut(@, update_activity(got.result, t))],
          result |-> TRUE]
    ELSE [reg |-> got.reg, result |-> FALSE]

\* (a variant of ensure_session: a record of another owner is replaced by a
\* new one)
EnsureReplacesOtherOwner(reg, session_id, user_id, t) ==
    LET got == get_session(reg, session_id, t) IN
    IF got.result = NoSession \/ got.result.user_id # user_id
    THEN create_session(got.reg, session_id, user_id, t)
    ELSE [reg |-> [got.reg EXCEPT
                     !.sessions = SessionsPut(@, update_activity(got.result, t))],
          result |-> update_activity(got.result, t)]

\* ensure_session(session_id, user_id)
ensure_session(reg, session_id, user_id, t) ==
    LET got == get_session(reg, session_id, t) IN
    IF got.result = NoSession
    THEN create_session(got.reg, session_id, user_id, t)
    ELSE [reg |-> [got.reg EXCEPT
                     !.sessions = SessionsPut(@, update_activity(got.result, t))],
          result |-> update_activity(got.result, t)]

\* the loop of get_user_sessions over a copy of the owner's set, in any order;
\* the list it builds is kept as the set of its elements
RECURSIVE UserSessionsLoop(_, _, _, _)
UserSessionsLoop(reg, ids, t, found) ==
    IF ids = {} THEN [reg |-> reg, result |-> found]
    ELSE LET session_id == CHOOSE id \in ids : TRUE
             got == get_session(reg, session_id, t)
         IN  UserSessionsLoop(got.reg, ids \ {session_id}, t,
                              IF got.result # NoSession
                              THEN found \cup {got.result} ELSE found)

\* get_user_sessions(user_id)
get_user_sessions(reg, user_id, t) ==
    IF user_id \notin DOMAIN reg.user_sessions
    THEN [reg |-> reg, result |-> {}]
    ELSE UserSessionsLoop(reg, reg.user_sessions[user_id], t, {})

\* sum(session.request_count for session in self.sessions.values())
RECURSIVE TotalRequests(_, _)
TotalRequests(ss, i) ==
    IF i > Len(ss) THEN 0 ELSE ss[i].request_count + TotalRequests(ss, i + 1)

\* get_session_statistics()
get_session_statistics(reg, t) ==
    [active_sessions |-> Len(reg.sessions),
     total_users |-> Cardinality(DOMAIN reg.user_sessions),
     total_requests |-> TotalRequests(reg.sessions, 1),
     expired_sessions |->
        Cardinality({i \in 1..Len(reg.sessions) :
                        is_expired(reg.sessions[i], timeout_seconds, t)}),
     max_sessions |-> max_sessions,
     timeout_seconds |-> timeout_seconds]

\* (a variant of RemoveAll: the loop ends after the first id)
RemoveFirstOnly(reg, expired_sessions, i) ==
    IF i > Len(expired_sessions) THEN reg
    ELSE remove_session(reg, expired_sessions[i].session_id).reg

\* the second loop of _cleanup_expired_sessions: remove_session for each id
RECURSIVE RemoveAll(_, _, _)
RemoveAll(reg, expired_sessions, i) ==
    IF i > Len(expired_sessions) THEN reg
    ELSE RemoveAll(remove_session(reg, expired_sessions[i].session_id).reg,
                   expired_sessions, i + 1)

\* _cleanup_expired_sessions()
_cleanup_expired_sessions(reg, t) ==
    LET expired_sessions ==
            SelectSeq(reg.sessions, LAMBDA s : is_expired(s, timeout_seconds, t))
    IN  RemoveAll(reg, expired_sessions, 1)

(***************************************************************************)
(* The state after the constructor, and the calls as actions.              *)
(***************************************************************************)
\* the session of the client whose ensure_session results are kept in ensured
TrackedSession == "s1"

SessionInit ==
    /\ sessions = <<>>
    /\ user_sessions = [u \in {} |-> {}]
    /\ session_is_running = FALSE
    /\ cleanupPc = "off"
    /\ cleanupLeft = 0
    /\ now = 0
    /\ ensured = NoSession

\* the registry a call leaves behind is written back
RegistryBecomes(reg) ==
    /\ \A i \in 1..Len(reg.sessions) : reg.sessions[i].request_count <= MaxRequests
    /\ sessions' = reg.sessions
    /\ user_sessions' = reg.user_sessions

\* start()
SessionStart ==
    /\ IF session_is_running
       THEN UNCHANGED <<session_is_running, cleanupPc, cleanupLeft>>
       ELSE /\ session_is_running' = TRUE
            /\ cleanupPc' = "sleep"
            /\ cleanupLeft' = cleanup_interval_seconds
    /\ UNCHANGED <<sessions, user_sessions, now, ensured>>

\* stop(): the cleanup task is cancelled in its sleep
SessionStop ==
    /\ session_is_running' = FALSE
    /\ cleanupPc' = "off"
    /\ cleanupLeft' = 0
    /\ UNCHANGED <<sessions, user_sessions, now, ensured>>

CallCreateSession(session_id, user_id) ==
    /\ RegistryBecomes(create_session(Registry, session_id, user_id, now).reg)
    /\ UNCHANGED <<session_is_running, cleanupPc, cleanupLeft, now, ensured>>

CallGetSession(session_id) ==
    /\ RegistryBecomes(get_session(Registry, session_id, now).reg)
    /\ UNCHANGED <<session_is_running, cleanupPc, cleanupLeft, now, ensured>>

CallUpdateSessionActivity(session_id) ==
    /\ RegistryBecomes(update_session_activity(Registry, session_id, now).reg)
    /\ UNCHANGED <<session_is_running, cleanupPc, cleanupLeft, now, ensured>>

CallRemoveSession(session_id) ==
    /\ RegistryBecomes(remove_session(Registry, session_id).reg)
    /\ UNCHANGED <<session_is_running, cleanupPc, cleanupLeft, now, ensured>>

CallGetUserSessions(user_id) ==
    /\ RegistryBecomes(get_user_sessions(Registry, user_id, now).reg)
    /\ UNCHANGED <<session_is_running, cleanupPc, cleanupLeft, now, ensured>>

CallEnsureSession(session_id, user_id) ==
    /\ RegistryBecomes(ensure_session(Registry, session_id, user_id, now).reg)
    /\ UNCHANGED <<session_is_running, cleanupPc, cleanupLeft, now, ensured>>

\* a client calls ensure_session for TrackedSession and keeps what it got
ClientEnsure(user_id) ==
    /\ RegistryBecomes(ensure_session(Registry, TrackedSession, user_id, now).reg)
    /\ ensured' = ensure_session(Registry, TrackedSession, user_id, now).result
    /\ UNCHANGED <<session_is_running, cleanupPc, cleanupLeft, now>>

\* the sleep of _cleanup_loop is over
CleanupTimerDue == cleanupPc = "sleep" /\ cleanupLeft = 0

\* _cleanup_loop: one pass after its sleep, back to the sleep
CleanupSweep ==
    /\ CleanupTimerDue
    /\ RegistryBecomes(_cleanup_expired_sessions(Registry, now))
    /\ cleanupLeft' = cleanup_interval_seconds
    /\ UNCHANGED <<session_is_running, cleanupPc, now, ensured>>

\* one second passes; a timer that is due fires before the clock moves on
SessionTick ==
    /\ ~CleanupTimerDue
    /\ now < MaxNow
    /\ now' = now + 1
    /\ cleanupLeft' = IF cleanupPc = "sleep" THEN cleanupLeft - 1 ELSE cleanupLeft
    /\ UNCHANGED <<sessions, user_sessions, session_is_running, cleanupPc, ensured>>

\* a time seen from one second later, for the clock that has reached MaxNow
OneSecondOlder(t) == IF t > 0 THEN t - 1 ELSE 0

\* one second passes, with no last second: at MaxNow the origin of the clock
\* moves on instead of the clock (every stored time becomes one second older;
\* ages beyond MaxNow are not told apart)
SessionTickForever ==
    /\ ~CleanupTimerDue
    /\ cleanupLeft' = IF cleanupPc = "sleep" THEN cleanupLeft - 1 ELSE cleanupLeft
    /\ IF now < MaxNow
       THEN /\ now' = now + 1
            /\ UNCHANGED <<sessions, ensured>>
       ELSE /\ now' = now
            /\ sessions' = [i \in 1..Len(sessions) |->
                              [sessions[i] EXCEPT !.created_at = OneSecondOlder(@),
                                                  !.last_activity = OneSecondOlder(@)]]
            /\ ensured' = IF ensured = NoSession THEN ensured
                          ELSE [ensured EXCEPT !.created_at = OneSecondOlder(@),
                                               !.last_activity = OneSecondOlder(@)]
    /\ UNCHANGED <<user_sessions, session_is_running, cleanupPc>>

----------------------------------------------------------------------------
(***************************************************************************)
(* Part 3: Neo4jManager (src/src/core/neo4j_manager.py).                   *)
(*                                                                         *)
(* start() and stop() are coroutines; an action is the code between two    *)
(* of their awaits.  What the manager does to its environment during a     *)
(* call (directory checks, port check, spawn, health probes, grace delay,  *)
(* taskkill) and what the environment answered is logged per call.         *)
(***************************************************************************)
\* config "startup_timeout" (a small value; the default is 60)
startup_timeout == 3
\* asyncio.sleep(2) between two probes of _wait_for_startup
PollSeconds == 2
\* asyncio.sleep(2) of _stop_process before the taskkill
StopGraceSeconds == 2
\* the port _check_port_available assumes when the URI names none
DefaultPort == 7687
\* the port an explicit URI of the model names
OtherPort == 7688

\* a health probe takes up to MaxProbeSeconds
MaxProbeSeconds == 3

\* self.uri, as its pieces between ":", each as its pieces between "/"
UriForms ==
    { << <<"bolt">>, <<"", "", "127.0.0.1">>, <<"7688">> >>,
      << <<"bolt">>, <<"", "", "127.0.0.1">>, <<"7688", "neo4j">> >>,
      << <<"bolt">>, <<"", "", "127.0.0.1">> >> }

VARIABLES
    embedded_enabled,   \* self.embedded_enabled (config)
    uri,                \* self.uri (config)
    process,            \* self.process: "None" or "Popen"
    driver,             \* self.driver: "None" or "Driver"
    shutdown_event,     \* self.shutdown_event.is_set()
    startPc,            \* where the call of start() is suspended ("idle": no call)
    startLeft,          \* seconds left of the await start() is suspended in
    neoElapsed,         \* time.time() - start_time of _wait_for_startup
    start_result,       \* what the last call of start() returned ("none": not yet)
    effects,            \* the log of the current (or last) call of start()
    stopNeoPc,          \* where the call of stop() is suspended ("idle": no call)
    stopLeft,           \* seconds left of the sleep stop() is suspended in
    stop_effects        \* the log of the current (or last) call of stop()

neoVars == <<embedded_enabled, uri, process, driver, shutdown_event, startPc,
             startLeft, neoElapsed, start_result, effects, stopNeoPc, stopLeft,
             stop_effects>>

\* a bool of the program or of its environment as it is logged ("none": no value yet)
PyBool(b) == IF b THEN "True" ELSE "False"

\* the log of a call that has done nothing yet
NoEffects ==
    [prereq_checks |-> 0, port_checks |-> 0, spawns |-> 0, probes |-> 0,
     grace_delays |-> 0, kills |-> 0,
     prereq_ok |-> "none", listener |-> "none", probe_ok |-> "none"]

\* errors: the exceptions the call has logged; result: how it ended ("none":
\* not yet)
NoStopEffects ==
    [driver_closes |-> 0, grace_delays |-> 0, kills |-> 0, errors |-> 0,
     result |-> "none"]

Neo4jInit ==
    /\ embedded_enabled \in BOOLEAN
    /\ uri \in UriForms
    /\ process = "None"
    /\ driver = "None"
    /\ shutdown_event = FALSE
    /\ startPc = "idle"
    /\ startLeft = 0
    /\ neoElapsed = 0
    /\ start_result = "none"
    /\ effects = NoEffects
    /\ stopNeoPc = "idle"
    /\ stopLeft = 0
    /\ stop_effects = NoStopEffects

\* int(port_str): the strings that are numbers, and their values
IntOf(port_str) ==
    CASE port_str = "7687" -> [ok |-> TRUE, value |-> DefaultPort]
      [] port_str = "7688" -> [ok |-> TRUE, value |-> OtherPort]
      [] OTHER -> [ok |-> FALSE, value |-> 0]

\* the port the URI names, which the driver connects to: DefaultPort when it
\* names none
TargetPort(u) ==
    IF Len(u) > 2 THEN IntOf(u[Len(u)][1]).value ELSE DefaultPort

\* _check_port_available(): the port is read from what follows the last ":"
\* of the URI, up to its first "/"; connect_ex tells whether it has a
\* listener; any exception on the way gives True
_check_port_available(u, listeners) ==
    LET port_str == u[Len(u)][1]
        parsed == IF Len(u) > 1 THEN IntOf(port_str)
                  ELSE [ok |-> TRUE, value |-> DefaultPort]
    IN  IF ~parsed.ok THEN TRUE
        ELSE parsed.value \notin listeners

\* (a variant of _setup_environment: the Neo4j directory is not looked at)
SetupIgnoresNeo4jHome(java_home_exists, neo4j_home_exists) ==
    IF ~java_home_exists THEN FALSE ELSE TRUE

\* _setup_environment(): both directories exist
_setup_environment(java_home_exists, neo4j_home_exists) ==
    IF ~java_home_exists THEN FALSE
    ELSE IF ~neo4j_home_exists THEN FALSE
    ELSE TRUE

\* (a variant of WaitLoopTop: the first iteration probes before any test)
WaitLoopTopProbesFirst(elapsed, event, handle, exited) ==
    IF elapsed = 0 THEN "probe"
    ELSE IF ~(elapsed < startup_timeout) THEN "timeout"
    ELSE IF event THEN "aborted"
    ELSE IF handle # "None" /\ exited THEN "died"
    ELSE "probe"

\* (a variant of WaitLoopTop: the shutdown event is not looked at)
WaitLoopTopIgnoresEvent(elapsed, event, handle, exited) ==
    IF ~(elapsed < startup_timeout) THEN "timeout"
    ELSE IF handle # "None" /\ exited THEN "died"
    ELSE "probe"

\* the head of one iteration of _wait_for_startup, up to its first await
WaitLoopTop(elapsed, event, handle, exited) ==
    IF ~(elapsed < startup_timeout) THEN "timeout"
    ELSE IF event THEN "aborted"
    ELSE IF handle # "None" /\ exited THEN "died"
    ELSE "probe"

\* start() from the head of an iteration of _wait_for_startup to the next
\* await: the probe, or the sleep of the _stop_process that follows a False
WaitIteration(log, elapsed, handle, exited, probe_seconds) ==
    LET top == WaitLoopTop(elapsed, shutdown_event, handle, exited) IN
    IF top = "probe"
    THEN /\ startPc' = "wait_probe"
         /\ startLeft' = probe_seconds
         /\ effects' = [log EXCEPT !.probes = @ + 1]
    ELSE /\ startPc' = "grace"
         /\ startLeft' = StopGraceSeconds
         /\ effects' = [log EXCEPT !.grace_delays = @ + 1]

Ports == {DefaultPort, OtherPort}

\* (a variant of StartMode: the configuration is not looked at)
StartModeAlwaysEmbedded(enabled) == "embedded"

\* the first test of start(): an external instance is probed, an embedded
\* one is started
StartMode(enabled) == IF ~enabled THEN "external" ELSE "embedded"

\* start(), from the call to its first await or to its return
NeoStartCall ==
    /\ startPc = "idle"
    /\ neoElapsed' = 0
    /\ IF StartMode(embedded_enabled) = "external"
       THEN /\ startPc' = "single_probe"
            /\ startLeft' = 0
            /\ effects' = [NoEffects EXCEPT !.probes = 1]
            /\ start_result' = "none"
            /\ UNCHANGED process
       ELSE \E java_home_exists \in BOOLEAN, neo4j_home_exists \in BOOLEAN :
            LET env == _setup_environment(java_home_exists, neo4j_home_exists)
                log1 == [NoEffects EXCEPT
                        !.prereq_checks = 1,
                        !.prereq_ok = PyBool(java_home_exists /\ neo4j_home_exists)]
            IN
            IF ~env
            THEN /\ startPc' = "idle"
                 /\ startLeft' = 0
                 /\ effects' = log1
                 /\ start_result' = "False"
                 /\ UNCHANGED process
            ELSE \E listeners \in SUBSET Ports :
                 LET log2 == [log1 EXCEPT !.port_checks = 1,
                                          !.listener =
                                             PyBool(TargetPort(uri) \in listeners)]
                 IN
                 IF ~_check_port_available(uri, listeners)
                 THEN /\ startPc' = "port_probe"
                      /\ startLeft' = 0
                      /\ effects' = [log2 EXCEPT !.probes = 1]
                      /\ start_result' = "none"
                      /\ UNCHANGED process
                 ELSE \E spawned \in BOOLEAN :
                      IF ~spawned
                      THEN /\ startPc' = "idle"
                           /\ startLeft' = 0
                           /\ effects' = log2
                           /\ start_result' = "False"
                           /\ UNCHANGED process
                      ELSE /\ process' = "Popen"
                           /\ start_result' = "none"
                           /\ \E exited \in BOOLEAN,
                                    probe_seconds \in 0..MaxProbeSeconds :
                                 WaitIteration([log2 EXCEPT !.spawns = 1], 0,
                                               "Popen", exited, probe_seconds)
    /\ UNCHANGED <<embedded_enabled, uri, driver, shutdown_event, stopNeoPc,
                   stopLeft, stop_effects>>

\* the one probe of start() outside the polling loop has answered
NeoSingleProbeDone ==
    /\ startPc \in {"single_probe", "port_probe"}
    /\ \E success \in BOOLEAN :
          /\ start_result' = PyBool(success)
          /\ effects' = [effects EXCEPT !.probe_ok = PyBool(success)]
    /\ startPc' = "idle"
    /\ UNCHANGED <<embedded_enabled, uri, process, driver, shutdown_event,
                   startLeft, neoElapsed, stopNeoPc, stopLeft, stop_effects>>

\* a probe of _wait_for_startup has answered
NeoWaitProbeDone ==
    /\ startPc = "wait_probe"
    /\ startLeft = 0
    /\ \E success \in BOOLEAN :
          /\ effects' = [effects EXCEPT !.probe_ok = PyBool(success)]
          /\ IF success
             THEN /\ start_result' = "True"
                  /\ startPc' = "idle"
                  /\ startLeft' = 0
             ELSE /\ start_result' = start_result
                  /\ startPc' = "wait_sleep"
                  /\ startLeft' = PollSeconds
    /\ UNCHANGED <<embedded_enabled, uri, process, driver, shutdown_event,
                   neoElapsed, stopNeoPc, stopLeft, stop_effects>>

\* the sleep between two probes is over: the next iteration
NeoWaitSleepDone ==
    /\ startPc = "wait_sleep"
    /\ startLeft = 0
    /\ \E exited \in BOOLEAN, probe_seconds \in 0..MaxProbeSeconds :
          WaitIteration(effects, neoElapsed, process, exited, probe_seconds)
    /\ UNCHANGED <<embedded_enabled, uri, process, driver, shutdown_event,
                   neoElapsed, start_result, stopNeoPc, stopLeft, stop_effects>>

\* _stop_process() called by start(): the sleep is over, taskkill is run
NeoStartGraceDone ==
    /\ startPc = "grace"
    /\ startLeft = 0
    /\ startPc' = "kill"
    /\ effects' = [effects EXCEPT !.kills = @ + 1]
    /\ UNCHANGED <<embedded_enabled, uri, process, driver, shutdown_event,
                   startLeft, neoElapsed, start_result, stopNeoPc, stopLeft,
                   stop_effects>>

\* what running taskkill can end in: exit code 0, another exit code, an exception
KillOutcomes == {"killed", "not_found", "raise"}

\* _stop_process() called by start(): taskkill is over, whatever its outcome
\* the finally clause clears self.process, and start() returns False
NeoStartKillDone ==
    /\ startPc = "kill"
    /\ \E outcome \in KillOutcomes : process' = "None"
    /\ start_result' = "False"
    /\ startPc' = "idle"
    /\ UNCHANGED <<embedded_enabled, uri, driver, shutdown_event, startLeft,
                   neoElapsed, effects, stopNeoPc, stopLeft, stop_effects>>

\* get_driver(): self.driver is assigned before verify_connectivity is awaited
NeoGetDriver ==
    /\ driver = "None"
    /\ \E outcome \in {"connected", "verify_raises", "driver_raises"} :
          driver' = IF outcome = "driver_raises" THEN "None" ELSE "Driver"
    /\ UNCHANGED <<embedded_enabled, uri, process, shutdown_event, startPc,
                   startLeft, neoElapsed, start_result, effects, stopNeoPc,
                   stopLeft, stop_effects>>

\* stop(), from the call into the sleep of _stop_process: the event is set,
\* a driver is closed (self.driver stays when close raises)
NeoStopCall ==
    /\ stopNeoPc = "idle"
    /\ shutdown_event' = TRUE
    /\ IF driver # "None"
       THEN \E closed \in BOOLEAN :
               /\ driver' = IF closed THEN "None" ELSE driver
               /\ stop_effects' = [NoStopEffects EXCEPT
                                     !.driver_closes = 1,
                                     !.grace_delays = 1,
                                     !.errors = IF closed THEN 0 ELSE 1]
       ELSE /\ driver' = driver
            /\ stop_effects' = [NoStopEffects EXCEPT !.grace_delays = 1]
    /\ stopNeoPc' = "grace"
    /\ stopLeft' = StopGraceSeconds
    /\ UNCHANGED <<embedded_enabled, uri, process, startPc, startLeft, neoElapsed,
                   start_result, effects>>

\* _stop_process() called by stop(): the sleep is over, taskkill is run
NeoStopGraceDone ==
    /\ stopNeoPc = "grace"
    /\ stopLeft = 0
    /\ stopNeoPc' = "kill"
    /\ stop_effects' = [stop_effects EXCEPT !.kills = @ + 1]
    /\ UNCHANGED <<embedded_enabled, uri, process, driver, shutdown_event, startPc,
                   startLeft, neoElapsed, start_result, effects, stopLeft>>

\* (a variant of StopProcessEnd: an exception of the taskkill is raised again)
StopProcessReraises(outcome) ==
    IF outcome = "raise" THEN "raised" ELSE "returned"

\* how _stop_process() ends: except Exception logs whatever the taskkill raised
StopProcessEnd(outcome) ==
    IF outcome \in KillOutcomes THEN "returned" ELSE "raised"

\* _stop_process() called by stop(): taskkill is over, self.process is
\* cleared by the finally clause, and stop() ends as _stop_process() does
NeoStopKillDone ==
    /\ stopNeoPc = "kill"
    /\ \E outcome \in KillOutcomes :
          /\ process' = "None"
          /\ stop_effects' = [stop_effects EXCEPT
                                !.errors = IF outcome = "raise" THEN @ + 1 ELSE @,
                                !.result = StopProcessEnd(outcome)]
    /\ stopNeoPc' = "idle"
    /\ UNCHANGED <<embedded_enabled, uri, driver, shutdown_event, startPc,
                   startLeft, neoElapsed, start_result, effects, stopLeft>>

\* start() is in an await that takes time
StartTimed == startPc \in {"wait_probe", "wait_sleep", "grace"}

\* one second passes; an await that is over resumes before the clock moves on
NeoTick ==
    /\ ~(StartTimed /\ startLeft = 0)
    /\ ~(stopNeoPc = "grace" /\ stopLeft = 0)
    /\ (StartTimed /\ startLeft > 0) \/ (stopNeoPc = "grace" /\ stopLeft > 0)
    /\ startLeft' = IF StartTimed THEN startLeft - 1 ELSE startLeft
    /\ stopLeft' = IF stopNeoPc = "grace" THEN stopLeft - 1 ELSE stopLeft
    /\ neoElapsed' = IF StartTimed THEN neoElapsed + 1 ELSE neoElapsed
    /\ UNCHANGED <<embedded_enabled, uri, process, driver, shutdown_event, startPc,
                   start_result, effects, stopNeoPc, stop_effects>>

----------------------------------------------------------------------------
(***************************************************************************)
(* Part 4: CocoroCore2App.startup (src/src/core_app.py).                   *)
(*                                                                         *)
(* startup() is a coroutine.  Its awaits are the start() of the            *)
(* Neo4jManager of Part 3, the start() of the text-memory scheduler and    *)
(* the start() of the OptimizationScheduler of Part 1 (which has no await  *)
(* of its own).  The steps it has executed are counted in app_steps.       *)
(***************************************************************************)
VARIABLES
    neo4j_manager,            \* self.neo4j_manager: "None" or "Neo4jManager"
    text_memory_scheduler,    \* self.text_memory_scheduler: "None" or "TextMemorySchedulerManager"
    optimization_scheduler,   \* self.optimization_scheduler: "None" or "OptimizationScheduler"
    app_is_running,           \* self.is_running of the application
    appPc,                    \* where the call of startup() is suspended ("new": no call yet)
    startup_result,           \* how startup() ended: "none", "returned", "raised"
    app_steps                 \* the steps startup() has executed

appVars == <<neo4j_manager, text_memory_scheduler, optimization_scheduler,
             app_is_running, appPc, startup_result, app_steps>>

\* no step after the start of the process manager has been executed
NoSteps ==
    [create_user |-> 0, ensure_memcube |-> 0, mos_add |-> 0,
     text_scheduler_start |-> 0, optimization_scheduler_start |-> 0]

\* __init__: the managers the configuration asks for are created, the
\* OptimizationScheduler only together with the text-memory scheduler
AppInit ==
    /\ neo4j_manager \in {"None", "Neo4jManager"}
    /\ text_memory_scheduler \in {"None", "TextMemorySchedulerManager"}
    /\ optimization_scheduler \in {"None", "OptimizationScheduler"}
    /\ text_memory_scheduler = "None" => optimization_scheduler = "None"
    /\ app_is_running = FALSE
    /\ appPc = "new"
    /\ startup_result = "none"
    /\ app_steps = NoSteps

\* (a variant of Neo4jVerdict: a failed start is logged and startup goes on)
Neo4jFailureTolerated(neo4j_started) == "continue"

\* startup() after neo4j_manager.start() has returned neo4j_started, or has
\* raised: RuntimeError is raised for False, an exception is raised again
Neo4jVerdict(neo4j_started) ==
    IF neo4j_started = "True" THEN "continue" ELSE "raise"

\* startup(), from the call to the await of neo4j_manager.start() (which
\* runs to its own first await or to its return)
AppStartupCall ==
    /\ appPc = "new"
    /\ IF neo4j_manager # "None"
       THEN /\ NeoStartCall
            /\ appPc' = "neo4j"
       ELSE /\ appPc' = "memory"
            /\ UNCHANGED neoVars
    /\ UNCHANGED <<neo4j_manager, text_memory_scheduler, optimization_scheduler,
                   app_is_running, startup_result, app_steps>>

\* neo4j_manager.start() has returned
AppNeo4jReturned ==
    /\ appPc = "neo4j"
    /\ startPc = "idle"
    /\ IF Neo4jVerdict(start_result) = "continue"
       THEN /\ appPc' = "memory"
            /\ startup_result' = startup_result
       ELSE /\ appPc' = "ended"
            /\ startup_result' = "raised"
    /\ UNCHANGED <<neo4j_manager, text_memory_scheduler, optimization_scheduler,
                   app_is_running, app_steps>>

\* the task running startup() is cancelled while start() is suspended:
\* CancelledError is raised at that await and is no Exception, so start()
\* does not handle it (a _stop_process under way clears self.process in its
\* finally clause) and raises it to startup()
AppNeo4jRaised ==
    /\ appPc = "neo4j"
    /\ startPc # "idle"
    /\ process' = IF startPc \in {"grace", "kill"} THEN "None" ELSE process
    /\ startPc' = "idle"
    /\ startLeft' = 0
    /\ start_result' = "raise"
    /\ UNCHANGED <<embedded_enabled, uri, driver, shutdown_event, neoElapsed,
                   effects, stopNeoPc, stopLeft, stop_effects>>
    /\ UNCHANGED appVars

\* startup() from the creation of the default user to the await of
\* text_memory_scheduler.start(), or to its end when there is no
\* text-memory scheduler or its initialization raises: the failure of
\* create_user and of mos.add is logged (the MemCube is then ensured a
\* second time), _ensure_user_memcube raises nothing
AppMemorySetup ==
    /\ appPc = "memory"
    /\ \E create_user_raises \in BOOLEAN, add_raises \in BOOLEAN :
          app_steps' = [app_steps EXCEPT
                          !.create_user = 1,
                          !.mos_add = 1,
                          !.ensure_memcube = IF add_raises THEN 2 ELSE 1]
    /\ IF text_memory_scheduler = "None"
       THEN /\ app_is_running' = TRUE
            /\ appPc' = "ended"
            /\ startup_result' = "returned"
            /\ UNCHANGED <<text_memory_scheduler, optimization_scheduler>>
       ELSE \E initialize_raises \in BOOLEAN :
            IF initialize_raises
            THEN /\ text_memory_scheduler' = "None"
                 /\ optimization_scheduler' = "None"
                 /\ app_is_running' = TRUE
                 /\ appPc' = "ended"
                 /\ startup_result' = "returned"
            ELSE /\ appPc' = "text_scheduler"
                 /\ UNCHANGED <<text_memory_scheduler, optimization_scheduler,
                                app_is_running, startup_result>>
    /\ UNCHANGED neo4j_manager

\* text_memory_scheduler.set_optimization_scheduler(...) called by startup():
\* TextMemorySchedulerManager (src/src/core/text_memory_scheduler.py) defines
\* no attribute of that name, so the call raises AttributeError
set_optimization_scheduler == "raise"

\* text_memory_scheduler.start() has returned or raised; then
\* set_optimization_scheduler and optimization_scheduler.start(), whose
\* failure costs the OptimizationScheduler only; then is_running = True
AppSchedulersStarted ==
    /\ appPc = "text_scheduler"
    /\ \E start_raises \in BOOLEAN :
          IF start_raises
          THEN /\ text_memory_scheduler' = "None"
               /\ optimization_scheduler' = "None"
               /\ app_steps' = [app_steps EXCEPT !.text_scheduler_start = 1]
               /\ UNCHANGED schedVars
          ELSE IF optimization_scheduler = "None"
          THEN /\ app_steps' = [app_steps EXCEPT !.text_scheduler_start = 1]
               /\ UNCHANGED <<text_memory_scheduler, optimization_scheduler>>
               /\ UNCHANGED schedVars
          ELSE IF set_optimization_scheduler = "raise"
          THEN /\ optimization_scheduler' = "None"
               /\ app_steps' = [app_steps EXCEPT !.text_scheduler_start = 1]
               /\ UNCHANGED text_memory_scheduler
               /\ UNCHANGED schedVars
          ELSE /\ Start
               /\ app_steps' = [app_steps EXCEPT
                                  !.text_scheduler_start = 1,
                                  !.optimization_scheduler_start = 1]
               /\ UNCHANGED <<text_memory_scheduler, optimization_scheduler>>
    /\ app_is_running' = TRUE
    /\ appPc' = "ended"
    /\ startup_result' = "returned"
    /\ UNCHANGED neo4j_manager

----------------------------------------------------------------------------
(***************************************************************************)
(* Part 5: the life cycles (src/src/core/session_manager.py start, stop    *)
(* and _cleanup_loop as asyncio tasks; src/src/core_app.py shutdown).      *)
(*                                                                         *)
(* Every start() of the SessionManager that is not already running creates *)
(* a task for _cleanup_loop; the tasks ever created are kept in            *)
(* cleanup_tasks, the last of them being self.cleanup_task.  The time of   *)
(* the sleep of a loop is left open here: a sleeping loop may sweep at any *)
(* moment.                                                                 *)
(***************************************************************************)
\* start() calls that create a task
MaxLoops == 3

VARIABLES
    cleanup_tasks,   \* the tasks created for _cleanup_loop, each by its state:
                     \* "created" (body not yet begun), "sleep", "cancelling"
                     \* (cancel() called, CancelledError not yet raised in it),
                     \* "done"
    stop_awaits,     \* the task the call of SessionManager.stop() awaits (0: no
                     \* call is suspended)
    shutdownPc,      \* where the call of CocoroCore2App.shutdown() is suspended
    shutdown_log     \* the steps shutdown() has attempted, in their order

lifeVars == <<cleanup_tasks, stop_awaits, shutdownPc, shutdown_log>>

\* nothing started, nothing shut down
LifeInit ==
    /\ cleanup_tasks = <<>>
    /\ stop_awaits = 0
    /\ shutdownPc = "new"
    /\ shutdown_log = <<>>

\* the variables of Part 5 that belong to the application
DownOnly == UNCHANGED <<shutdownPc, shutdown_log>>

\* the variables of the registry a step of the tasks leaves alone
LoopFrame == UNCHANGED <<sessions, user_sessions, cleanupPc, cleanupLeft, now, ensured>>

\* SessionManager.start()
LoopStart ==
    /\ Len(cleanup_tasks) < MaxLoops
    /\ IF session_is_running
       THEN UNCHANGED <<session_is_running, cleanup_tasks>>
       ELSE /\ session_is_running' = TRUE
            /\ cleanup_tasks' = Append(cleanup_tasks, "created")
    /\ UNCHANGED stop_awaits
    /\ LoopFrame

\* SessionManager.stop(), from the call to its await of self.cleanup_task or
\* to its return: a task that is done is not awaited for long (the
\* CancelledError it ended with is caught), cancel() on it does nothing
LoopStopCall ==
    /\ stop_awaits = 0
    /\ session_is_running' = FALSE
    /\ IF cleanup_tasks = <<>> \/ cleanup_tasks[Len(cleanup_tasks)] = "done"
       THEN UNCHANGED <<cleanup_tasks, stop_awaits>>
       ELSE /\ cleanup_tasks' = [cleanup_tasks EXCEPT ![Len(cleanup_tasks)] = "cancelling"]
            /\ stop_awaits' = Len(cleanup_tasks)
    /\ LoopFrame

\* the await of stop() is over when the task is done; stop() returns
LoopStopReturns ==
    /\ stop_awaits > 0
    /\ cleanup_tasks[stop_awaits] = "done"
    /\ stop_awaits' = 0
    /\ UNCHANGED <<session_is_running, cleanup_tasks>>
    /\ LoopFrame

\* the test of `while self.is_running` at the head of _cleanup_loop
LoopHead(running) == IF running THEN "sleep" ELSE "done"

\* a task begins the body of _cleanup_loop, up to its sleep
LoopBegin(i) ==
    /\ cleanup_tasks[i] = "created"
    /\ cleanup_tasks' = [cleanup_tasks EXCEPT ![i] = LoopHead(session_is_running)]
    /\ UNCHANGED <<session_is_running, stop_awaits>>
    /\ LoopFrame

\* CancelledError is raised in the task, at its sleep or before its body
\* has begun: the loop breaks
LoopCancelled(i) ==
    /\ cleanup_tasks[i] = "cancelling"
    /\ cleanup_tasks' = [cleanup_tasks EXCEPT ![i] = "done"]
    /\ UNCHANGED <<session_is_running, stop_awaits>>
    /\ LoopFrame

\* how a run of _cleanup_expired_sessions can end
SweepOutcomes == {"swept", "raise"}

\* (a variant of AfterSweep: an exception of the sweep ends the loop)
AfterSweepErrorEnds(outcome, running) ==
    IF outcome = "raise" THEN "done" ELSE LoopHead(running)

\* _cleanup_loop after the sweep: `except Exception` logs what the sweep
\* raised, and the loop goes on to its head
AfterSweep(outcome, running) ==
    IF outcome \in SweepOutcomes THEN LoopHead(running) ELSE "done"

\* the sleep of a task is over: _cleanup_expired_sessions runs, to its end
\* or to an exception after some of its removals, and the loop goes on
LoopSweep(i, outcome) ==
    /\ cleanup_tasks[i] = "sleep"
    /\ LET expired_sessions ==
               SelectSeq(sessions, LAMBDA s : is_expired(s, timeout_seconds, now))
       IN  \E n \in 0..Len(expired_sessions) :
              /\ outcome = "swept" => n = Len(expired_sessions)
              /\ RegistryBecomes(RemoveAll(Registry, SubSeq(expired_sessions, 1, n), 1))
    /\ cleanup_tasks' = [cleanup_tasks EXCEPT ![i] = AfterSweep(outcome, session_is_running)]
    /\ UNCHANGED <<session_is_running, stop_awaits, cleanupPc, cleanupLeft, now, ensured>>

----------------------------------------------------------------------------
(***************************************************************************)
(* CocoroCore2App.shutdown() is a coroutine; it is called when startup()   *)
(* has ended (src/src/app.py, the finally clause of lifespan).  Its awaits *)
(* are the stop() of the OptimizationScheduler of Part 1, the stop() of    *)
(* the text-memory scheduler and the stop() of the Neo4jManager of Part 3. *)
(* Each step it attempts is logged with the way it ended.                  *)
(***************************************************************************)
\* an entry of shutdown_log
Attempt(step, outcome) == [step |-> step, outcome |-> outcome]

\* the log with the outcome of its last entry
Ended(log, outcome) == [log EXCEPT ![Len(log)].outcome = outcome]

\* text_memory_scheduler.is_running: set by its start() in startup()
TmsRunning ==
    text_memory_scheduler # "None" /\ app_steps.text_scheduler_start = 1

\* what shutdown() leaves alone
DownFrame ==
    UNCHANGED <<sessVars, neo4j_manager, text_memory_scheduler,
                optimization_scheduler, appPc, startup_result, app_steps,
                cleanup_tasks, stop_awaits>>

\* (a variant of StepVerdict: an exception of a step ends shutdown())
StepFailureAborts(outcome) == IF outcome = "raised" THEN "abort" ELSE "continue"

\* shutdown() after one of its steps has returned or raised: each step has
\* its own try/except Exception, which logs
StepVerdict(outcome) == "continue"

\* the outer except of shutdown(): the rest is skipped
DownAborted(log) ==
    /\ shutdown_log' = log
    /\ shutdownPc' = "ended"
    /\ UNCHANGED <<neoVars, app_is_running>>

\* shutdown() from the test of self.neo4j_manager: stop() is called and runs
\* to its first await, or shutdown() ends
DownFromNeo4j(log) ==
    IF neo4j_manager # "None"
    THEN /\ NeoStopCall
         /\ shutdown_log' = Append(log, Attempt("neo4j_manager.stop", "pending"))
         /\ shutdownPc' = "neo4j_stop"
         /\ UNCHANGED app_is_running
    ELSE /\ shutdown_log' = log
         /\ shutdownPc' = "ended"
         /\ app_is_running' = FALSE
         /\ UNCHANGED neoVars

\* shutdown() from the persistence of the MemCubes, which has no await
DownFromPersist(log) ==
    \E outcome \in {"returned", "raised"} :
        IF StepVerdict(outcome) = "continue"
        THEN DownFromNeo4j(Append(log, Attempt("persist", outcome)))
        ELSE DownAborted(Append(log, Attempt("persist", outcome)))

\* shutdown() from the test of the text-memory scheduler
DownFromTextScheduler(log) ==
    IF TmsRunning
    THEN /\ shutdown_log' = Append(log, Attempt("text_memory_scheduler.stop", "pending"))
         /\ shutdownPc' = "tms_stop"
         /\ UNCHANGED <<neoVars, app_is_running>>
    ELSE DownFromPersist(log)

\* shutdown(), from the call to its first await
ShutdownCall ==
    /\ shutdownPc = "new"
    /\ appPc = "ended"
    /\ IF optimization_scheduler # "None" /\ is_running
       THEN /\ Stop
            /\ shutdown_log' = <<Attempt("optimization_scheduler.stop", "pending")>>
            /\ shutdownPc' = "opt_stop"
            /\ UNCHANGED <<neoVars, app_is_running>>
       ELSE /\ DownFromTextScheduler(<<>>)
            /\ UNCHANGED schedVars
    /\ DownFrame

\* optimization_scheduler.stop() has returned, or has raised at its await
\* (startup() leaves no scheduler that runs, see AppSchedulersStarted)
ShutdownOptimizationStopped ==
    /\ shutdownPc = "opt_stop"
    /\ \E outcome \in {"returned", "raised"} :
          /\ IF outcome = "returned"
             THEN stopPc = "done" /\ UNCHANGED schedVars
             ELSE /\ stopPc = "gather"
                  /\ stopPc' = "done"
                  /\ UNCHANGED <<is_running, optimization_tasks, user_memory_counts,
                                 last_optimization_times, running_optimizations,
                                 created, awaiting, workerPc, periodicPc,
                                 periodicLeft, wait_count>>
          /\ IF StepVerdict(outcome) = "continue"
             THEN DownFromTextScheduler(Ended(shutdown_log, outcome))
             ELSE DownAborted(Ended(shutdown_log, outcome))
    /\ DownFrame

\* text_memory_scheduler.stop() has returned or raised
ShutdownTextSchedulerStopped ==
    /\ shutdownPc = "tms_stop"
    /\ \E outcome \in {"returned", "raised"} :
          IF StepVerdict(outcome) = "continue"
          THEN DownFromPersist(Ended(shutdown_log, outcome))
          ELSE DownAborted(Ended(shutdown_log, outcome))
    /\ UNCHANGED schedVars
    /\ DownFrame

\* neo4j_manager.stop() has ended; is_running = False
ShutdownNeo4jStopped ==
    /\ shutdownPc = "neo4j_stop"
    /\ stopNeoPc = "idle"
    /\ shutdown_log' = Ended(shutdown_log, stop_effects.result)
    /\ shutdownPc' = "ended"
    /\ app_is_running' = FALSE
    /\ UNCHANGED <<schedVars, neoVars>>
    /\ DownFrame

----------------------------------------------------------------------------
(***************************************************************************)
(* The scheduler, the session manager and the process manager share no     *)
(* state.  A specification drives one of them and leaves the others, and   *)
(* the application, as their constructors made them.                       *)
(***************************************************************************)
vars == <<schedVars, sessVars, neoVars, appVars, lifeVars>>

\* the Neo4jManager of the default configuration, not yet used
Neo4jUnused ==
    /\ Neo4jInit
    /\ embedded_enabled
    /\ uri = << <<"bolt">>, <<"", "", "127.0.0.1">>, <<"7688">> >>

\* the application of the default configuration, not yet started
AppUnused ==
    /\ AppInit
    /\ neo4j_manager = "Neo4jManager"
    /\ text_memory_scheduler = "TextMemorySchedulerManager"
    /\ optimization_scheduler = "OptimizationScheduler"

\* the components constructed
SchedStart == SchedInit /\ SessionInit /\ Neo4jUnused /\ AppUnused /\ LifeInit

SchedOnly == UNCHANGED <<sessVars, neoVars, appVars, lifeVars>>
SessionOnly == UNCHANGED <<schedVars, neoVars, appVars, lifeVars>>
Neo4jOnly == UNCHANGED <<schedVars, sessVars, appVars, lifeVars>>

----------------------------------------------------------------------------
(***************************************************************************)
(* SchedSpec: the scheduler under every call of its interface (start,      *)
(* stop, notify_memory_added, force_optimization, reset_user_memory_count) *)
(* with its worker and its task coroutines, in the time before the first   *)
(* sleep of the periodic loop ends.                                        *)
(***************************************************************************)
SchedNext ==
    \/ /\ Start
       /\ SchedOnly
    \/ /\ Stop
       /\ SchedOnly
    \/ /\ StopGathered
       /\ SchedOnly
    \/ /\ StopWaitTick
       /\ SchedOnly
    \/ /\ \E u \in Users : notify_memory_added(u)
       /\ SchedOnly
    \/ /\ \E u \in Users, t \in ForceTypes : force_optimization(u, t)
       /\ SchedOnly
    \/ /\ \E u \in Users : reset_user_memory_count(u)
       /\ SchedOnly
    \/ /\ WorkerDequeue
       /\ SchedOnly
    \/ /\ WorkerWake
       /\ SchedOnly
    \/ /\ \E u \in Users : ExecStart(u)
       /\ SchedOnly
    \/ /\ \E u \in Users, outcome \in OptimizerOutcomes : ExecFinish(u, outcome)
       /\ SchedOnly

SchedSpec == SchedStart /\ [][SchedNext]_vars

(***************************************************************************)
(* StopLiveSpec: SchedSpec with a stop() that goes on: the gather of the   *)
(* two cancelled loops ends and each sleep(1) of the wait ends.  Nothing   *)
(* is assumed of the optimizer, whose calls may never return.              *)
(***************************************************************************)
StopLiveSpec ==
    /\ SchedStart
    /\ [][SchedNext]_vars
    /\ WF_vars(StopGathered /\ SchedOnly)
    /\ WF_vars(StopWaitTick /\ SchedOnly)

(***************************************************************************)
(* DrainSpec: a started scheduler that is never stopped, under             *)
(* force_optimization calls that go on for ever, with a backlog of up to   *)
(* MaxBacklog tasks.  The worker goes on, a created task coroutine begins  *)
(* and every optimizer call returns.  One task is told apart from the      *)
(* others by its optimization_type: a "dedup" task is forced only while    *)
(* none is queued, every other forced task is a "full" one.                *)
(***************************************************************************)
\* tasks alive at once in DrainSpec
MaxBacklog == 5

\* force_optimization(user_id, optimization_type) with a backlog of MaxBacklog
ForceUnderLoad(user_id, optimization_type) ==
    /\ optimization_tasks' =
         _schedule_optimization(optimization_tasks, user_id, optimization_type, 2)
    /\ Len(optimization_tasks') + ExecCount <= MaxBacklog
    /\ UNCHANGED <<is_running, user_memory_counts, last_optimization_times,
                   running_optimizations, created, awaiting, workerPc, periodicPc,
                   periodicLeft, stopPc, wait_count>>

\* the queue holds a "dedup" task
DedupQueued ==
    \E i \in 1..Len(optimization_tasks) :
        optimization_tasks[i].optimization_type = "dedup"

DrainNext ==
    \/ /\ Start
       /\ SchedOnly
    \/ /\ ~DedupQueued
       /\ \E u \in Users : ForceUnderLoad(u, "dedup")
       /\ SchedOnly
    \/ /\ \E u \in Users : ForceUnderLoad(u, "full")
       /\ SchedOnly
    \/ /\ WorkerDequeue
       /\ SchedOnly
    \/ /\ WorkerWake
       /\ SchedOnly
    \/ /\ \E u \in Users : ExecStart(u)
       /\ SchedOnly
    \/ /\ \E u \in Users, outcome \in OptimizerOutcomes : ExecFinish(u, outcome)
       /\ SchedOnly

DrainSpec ==
    /\ SchedStart
    /\ [][DrainNext]_vars
    /\ WF_vars(WorkerDequeue /\ SchedOnly)
    /\ WF_vars(WorkerWake /\ SchedOnly)
    /\ \A u \in Users : WF_vars(ExecStart(u) /\ SchedOnly)
    /\ \A u \in Users :
          WF_vars((\E outcome \in OptimizerOutcomes : ExecFinish(u, outcome))
                  /\ SchedOnly)

(***************************************************************************)
(* TimedSpec: a started scheduler with the clock and the periodic loop,    *)
(* driven by notify_memory_added only.                                     *)
(***************************************************************************)
TimedNext ==
    \/ /\ Start
       /\ SchedOnly
    \/ /\ \E u \in Users : notify_memory_added(u)
       /\ SchedOnly
    \/ /\ WorkerDequeue
       /\ SchedOnly
    \/ /\ WorkerWake
       /\ SchedOnly
    \/ /\ \E u \in Users : ExecStart(u)
       /\ SchedOnly
    \/ /\ \E u \in Users, outcome \in OptimizerOutcomes : ExecFinish(u, outcome)
       /\ SchedOnly
    \/ /\ PeriodicTick
       /\ SchedOnly
    \/ /\ Tick
       /\ SchedOnly

TimedSpec == SchedStart /\ [][TimedNext]_vars

(***************************************************************************)
(* ScenarioSpec: example scenario 2 of the specification.  ScenarioUser    *)
(* gets auto_optimize_threshold calls of notify_memory_added and nothing   *)
(* else, and the optimizer always succeeds for it; the other users are     *)
(* driven as in SchedSpec.  The clock runs up to the first periodic pass.  *)
(* No second subject can fill the concurrency cap here, so the worker is   *)
(* never put to sleep.                                                     *)
(***************************************************************************)
ScenarioUser == "alice"

ScenarioNotify ==
    /\ CountOf(user_memory_counts, ScenarioUser) < auto_optimize_threshold
    /\ ~HasTime(last_optimization_times, ScenarioUser)
    /\ notify_memory_added(ScenarioUser)

ScenarioNext ==
    \/ /\ Start
       /\ SchedOnly
    \/ /\ ScenarioNotify
       /\ SchedOnly
    \/ /\ \E u \in Users \ {ScenarioUser} : notify_memory_added(u)
       /\ SchedOnly
    \/ /\ \E u \in Users \ {ScenarioUser}, t \in ForceTypes : force_optimization(u, t)
       /\ SchedOnly
    \/ /\ \E u \in Users \ {ScenarioUser} : reset_user_memory_count(u)
       /\ SchedOnly
    \/ /\ WorkerDequeue
       /\ SchedOnly
    \/ /\ \E u \in Users : ExecStart(u)
       /\ SchedOnly
    \/ /\ ExecFinish(ScenarioUser, "success")
       /\ SchedOnly
    \/ /\ \E u \in Users \ {ScenarioUser}, outcome \in OptimizerOutcomes :
             ExecFinish(u, outcome)
       /\ SchedOnly
    \/ /\ Tick
       /\ SchedOnly

ScenarioSpec == SchedStart /\ [][ScenarioNext]_vars

(***************************************************************************)
(* SessionSpec: the registry under every call of its interface, with the   *)
(* cleanup loop and the clock up to MaxNow.                                *)
(***************************************************************************)
SessionNext ==
    \/ /\ SessionStart
       /\ SessionOnly
    \/ /\ SessionStop
       /\ SessionOnly
    \/ /\ \E k \in SessionIds, u \in Users : CallCreateSession(k, u)
       /\ SessionOnly
    \/ /\ \E k \in SessionIds : CallGetSession(k)
       /\ SessionOnly
    \/ /\ \E k \in SessionIds : CallUpdateSessionActivity(k)
       /\ SessionOnly
    \/ /\ \E k \in SessionIds : CallRemoveSession(k)
       /\ SessionOnly
    \/ /\ \E u \in Users : CallGetUserSessions(u)
       /\ SessionOnly
    \/ /\ \E k \in SessionIds, u \in Users : CallEnsureSession(k, u)
       /\ SessionOnly
    \/ /\ CleanupSweep
       /\ SessionOnly
    \/ /\ SessionTick
       /\ SessionOnly

SessionSpec == SchedStart /\ [][SessionNext]_vars

(***************************************************************************)
(* EnsureSpec: the registry seen by one client that calls ensure_session   *)
(* for TrackedSession again and again, while other sessions come and go.   *)
(***************************************************************************)
EnsureNext ==
    \/ /\ SessionStart
       /\ SessionOnly
    \/ /\ \E u \in Users : ClientEnsure(u)
       /\ SessionOnly
    \/ /\ \E k \in SessionIds \ {TrackedSession} : CallEnsureSession(k, "bob")
       /\ SessionOnly
    \/ /\ \E k \in SessionIds : CallRemoveSession(k)
       /\ SessionOnly
    \/ /\ CleanupSweep
       /\ SessionOnly
    \/ /\ SessionTick
       /\ SessionOnly

EnsureSpec == SchedStart /\ [][EnsureNext]_vars

(***************************************************************************)
(* SessionLiveSpec: the registry with a clock that never stops, for what   *)
(* the cleanup loop does in the end.  Time passes, and the event loop      *)
(* resumes the cleanup loop when its sleep is over.                        *)
(***************************************************************************)
LiveSessionIds == {"s1", "s2"}

SessionLiveNext ==
    \/ /\ SessionStart
       /\ SessionOnly
    \/ /\ SessionStop
       /\ SessionOnly
    \/ /\ \E k \in LiveSessionIds : CallGetSession(k)
       /\ SessionOnly
    \/ /\ \E k \in LiveSessionIds : CallRemoveSession(k)
       /\ SessionOnly
    \/ /\ \E k \in LiveSessionIds, u \in Users : CallEnsureSession(k, u)
       /\ SessionOnly
    \/ /\ CleanupSweep
       /\ SessionOnly
    \/ /\ SessionTickForever
       /\ SessionOnly

SessionLiveSpec ==
    /\ SchedStart
    /\ [][SessionLiveNext]_vars
    /\ WF_vars(CleanupSweep /\ SessionOnly)
    /\ WF_vars(SessionTickForever /\ SessionOnly)

(***************************************************************************)
(* Neo4jSpec: a manager of any configuration under calls of start(),       *)
(* stop() and get_driver(), with the clock of its awaits.                  *)
(***************************************************************************)
Neo4jNext ==
    \/ /\ NeoStartCall
       /\ Neo4jOnly
    \/ /\ NeoSingleProbeDone
       /\ Neo4jOnly
    \/ /\ NeoWaitProbeDone
       /\ Neo4jOnly
    \/ /\ NeoWaitSleepDone
       /\ Neo4jOnly
    \/ /\ NeoStartGraceDone
       /\ Neo4jOnly
    \/ /\ NeoStartKillDone
       /\ Neo4jOnly
    \/ /\ NeoGetDriver
       /\ Neo4jOnly
    \/ /\ NeoStopCall
       /\ Neo4jOnly
    \/ /\ NeoStopGraceDone
       /\ Neo4jOnly
    \/ /\ NeoStopKillDone
       /\ Neo4jOnly
    \/ /\ NeoTick
       /\ Neo4jOnly

\* the components constructed, the process manager with any configuration
Neo4jStart == SchedInit /\ SessionInit /\ Neo4jInit /\ AppUnused /\ LifeInit

Neo4jSpec == Neo4jStart /\ [][Neo4jNext]_vars

(***************************************************************************)
(* AppSpec: one call of startup() on an application of any configuration.  *)
(* The application creates its Neo4jManager in embedded mode only.         *)
(***************************************************************************)
AppNext ==
    \/ /\ AppStartupCall
       /\ UNCHANGED <<schedVars, sessVars, lifeVars>>
    \/ /\ NeoSingleProbeDone
       /\ Neo4jOnly
    \/ /\ NeoWaitProbeDone
       /\ Neo4jOnly
    \/ /\ NeoWaitSleepDone
       /\ Neo4jOnly
    \/ /\ NeoStartGraceDone
       /\ Neo4jOnly
    \/ /\ NeoStartKillDone
       /\ Neo4jOnly
    \/ /\ NeoTick
       /\ Neo4jOnly
    \/ /\ AppNeo4jReturned
       /\ UNCHANGED <<schedVars, sessVars, neoVars, lifeVars>>
    \/ /\ AppNeo4jRaised
       /\ UNCHANGED <<schedVars, sessVars, lifeVars>>
    \/ /\ AppMemorySetup
       /\ UNCHANGED <<schedVars, sessVars, neoVars, lifeVars>>
    \/ /\ AppSchedulersStarted
       /\ UNCHANGED <<sessVars, neoVars, lifeVars>>

\* the components constructed, the application with any configuration
AppStart ==
    /\ SchedInit
    /\ SessionInit
    /\ AppInit
    /\ Neo4jInit
    /\ LifeInit
    /\ embedded_enabled
    /\ neo4j_manager = "None" => uri = << <<"bolt">>, <<"", "", "127.0.0.1">>, <<"7688">> >>

AppSpec == AppStart /\ [][AppNext]_vars

(***************************************************************************)
(* ShutdownSpec: the application from its construction through startup()   *)
(* to the end of shutdown(), with the stop() call of the process manager.  *)
(* startup() leaves no OptimizationScheduler that runs (its link to the    *)
(* text-memory scheduler raises), so shutdown() never has one to stop.     *)
(***************************************************************************)
ShutdownNext ==
    \/ AppNext
    \/ ShutdownCall
    \/ ShutdownTextSchedulerStopped
    \/ /\ NeoStopGraceDone
       /\ Neo4jOnly
    \/ /\ NeoStopKillDone
       /\ Neo4jOnly
    \/ ShutdownNeo4jStopped

ShutdownSpec == AppStart /\ [][ShutdownNext]_vars

(***************************************************************************)
(* SweepLoopSpec: the SessionManager under calls of start() and stop()     *)
(* (one stop() at a time), with the tasks of its sweep loop, while         *)
(* sessions are created and time passes.                                   *)
(***************************************************************************)
\* the other components, and what the tasks do not touch
LoopOnly == UNCHANGED <<schedVars, neoVars, appVars>> /\ DownOnly

SweepLoopNext ==
    \/ /\ LoopStart
       /\ LoopOnly
    \/ /\ LoopStopCall
       /\ LoopOnly
    \/ /\ LoopStopReturns
       /\ LoopOnly
    \/ /\ \E i \in 1..Len(cleanup_tasks) : LoopBegin(i)
       /\ LoopOnly
    \/ /\ \E i \in 1..Len(cleanup_tasks) : LoopCancelled(i)
       /\ LoopOnly
    \/ /\ \E i \in 1..Len(cleanup_tasks), outcome \in SweepOutcomes : LoopSweep(i, outcome)
       /\ LoopOnly
    \/ /\ \E k \in SessionIds, u \in Users : CallCreateSession(k, u)
       /\ SessionOnly
    \/ /\ SessionTick
       /\ SessionOnly

SweepLoopSpec == SchedStart /\ [][SweepLoopNext]_vars

----------------------------------------------------------------------------
(***************************************************************************)
(* Properties.  They are stated over the variables, not over the           *)
(* operators the actions are built from.                                   *)
(***************************************************************************)
\* number of queued tasks of user u
QueuedFor(u) ==
    Cardinality({i \in 1..Len(optimization_tasks) : optimization_tasks[i].user_id = u})

\* a task of user u is queued, or dequeued and not finished
InFlight(u) == QueuedFor(u) > 0 \/ created[u] > 0 \/ awaiting[u] > 0

\* the counter a subject has (0 without an entry)
Counter(u) == IF u \in DOMAIN user_memory_counts THEN user_memory_counts[u] ELSE 0

\* C1: at no instant are two optimization tasks of the same user_id inside
\* _execute_optimization_task awaiting the optimizer.
C1_OneRunningTaskPerUser == \A u \in Users : awaiting[u] <= 1

\* C2: the tasks dequeued and started but not finished, over all subjects, are
\* never more than max_concurrent_optimizations.
C2_ConcurrencyCap ==
    SumOver(created, Users) + SumOver(awaiting, Users) <= max_concurrent_optimizations

\* C3: the queue never holds a threshold_triggered task of a subject that has
\* another task queued or running.
C3_NoThresholdTaskWhileInFlight ==
    \A i \in 1..Len(optimization_tasks) :
        optimization_tasks[i].optimization_type = "threshold_triggered" =>
            LET u == optimization_tasks[i].user_id IN
            /\ QueuedFor(u) = 1
            /\ created[u] = 0
            /\ awaiting[u] = 0

\* C4: force_optimization(user_id, kind) changes nothing when a task of that
\* subject is in flight, and otherwise enqueues one task of that kind with
\* priority 2.
C4_ForceNeverDoubleEnqueues ==
    [][\A u \in Users, t \in ForceTypes :
         (is_running /\ force_optimization(u, t)) =>
            optimization_tasks' =
               IF InFlight(u) THEN optimization_tasks
               ELSE Append(optimization_tasks,
                           [user_id |-> u, optimization_type |-> t, priority |-> 2])
      ]_schedVars

\* C5 as claimed: on a running scheduler a call of notify_memory_added that
\* leaves the counter below auto_optimize_threshold enqueues nothing, and the
\* call that brings it to auto_optimize_threshold enqueues one
\* threshold_triggered task with priority 1.
C5_ThresholdCallEnqueues ==
    [][\A u \in Users :
         (is_running /\ notify_memory_added(u)) =>
            /\ Counter(u) + 1 < auto_optimize_threshold =>
                  optimization_tasks' = optimization_tasks
            /\ Counter(u) + 1 = auto_optimize_threshold =>
                  optimization_tasks' =
                     Append(optimization_tasks,
                            [user_id |-> u, optimization_type |-> "threshold_triggered",
                             priority |-> 1])
      ]_schedVars

\* C5 amended: as C5, but the call that brings the counter to
\* auto_optimize_threshold enqueues nothing when a task of the subject is
\* executing at that moment (user_id is in running_optimizations).
C5_ThresholdCallEnqueuesUnlessRunning ==
    [][\A u \in Users :
         (is_running /\ notify_memory_added(u)) =>
            /\ user_memory_counts'[u] = Counter(u) + 1
            /\ Counter(u) + 1 < auto_optimize_threshold =>
                  optimization_tasks' = optimization_tasks
            /\ Counter(u) + 1 = auto_optimize_threshold =>
                  optimization_tasks' =
                     IF u \in running_optimizations THEN optimization_tasks
                     ELSE Append(optimization_tasks,
                                 [user_id |-> u,
                                  optimization_type |-> "threshold_triggered",
                                  priority |-> 1])
      ]_schedVars

\* a running scheduler on which the call that brings a counter from
\* auto_optimize_threshold - 1 to auto_optimize_threshold adds one task
C5_Witness ==
    \E u \in Users :
        /\ is_running
        /\ Counter(u) = auto_optimize_threshold - 1
        /\ ENABLED (/\ notify_memory_added(u)
                    /\ Len(optimization_tasks') = Len(optimization_tasks) + 1)

\* the subject has an entry in last_optimization_times
Completed(u) ==
    \E i \in 1..Len(last_optimization_times) : last_optimization_times[i].user_id = u

\* the entry of last_optimization_times was written at this instant
CompletedNow(times, u) ==
    \E i \in 1..Len(times) : times[i].user_id = u /\ times[i].elapsed = 0

\* C6, the scenario: while ScenarioUser gets its auto_optimize_threshold calls
\* of notify_memory_added and the optimizer succeeds, it has no task before the
\* last call, one threshold_triggered task after it, and once that task has
\* completed its counter is 0 and it has no further task.
C6_ScenarioInv ==
    LET a == ScenarioUser
        alive == QueuedFor(a) + created[a] + awaiting[a]
    IN  /\ alive <= 1
        /\ alive = 1 => Counter(a) = auto_optimize_threshold /\ ~Completed(a)
        /\ Completed(a) => alive = 0 /\ Counter(a) = 0
        /\ \A i \in 1..Len(optimization_tasks) :
              optimization_tasks[i].user_id = a =>
                 /\ optimization_tasks[i].optimization_type = "threshold_triggered"
                 /\ optimization_tasks[i].priority = 1

\* C6: when the optimizer returns success the subject's counter is set to 0
\* and its last successful optimization time is recorded; with threshold N, N
\* notify_memory_added calls and an always succeeding optimizer one task
\* executes for the subject and its counter is 0 when the task completes.
C6_SuccessResetsCounter ==
    /\ []C6_ScenarioInv
    /\ [][\A u \in Users :
            ExecFinish(u, "success") =>
               /\ u \in DOMAIN user_memory_counts'
               /\ user_memory_counts'[u] = 0
               /\ CompletedNow(last_optimization_times', u)
               /\ \A v \in Users \ {u} :
                     Completed(v)' = Completed(v)
         ]_schedVars

\* the scenario has run to its end: the one task of ScenarioUser has completed
C6_Witness ==
    /\ Completed(ScenarioUser)
    /\ ScenarioUser \in DOMAIN user_memory_counts
    /\ user_memory_counts[ScenarioUser] = 0
    /\ ~InFlight(ScenarioUser)

\* C7: when the optimizer returns success false, the counter c becomes
\* floor(c / 2), not 0 for c >= 2 and not c for c >= 1, the last-success times
\* are unchanged and the task is not enqueued again.
C7_FailureHalvesCounter ==
    [][\A u \in Users :
         ExecFinish(u, "failure") =>
            LET c == Counter(u)
                d == user_memory_counts'[u]
            IN  /\ 2 * d <= c /\ c <= 2 * d + 1
                /\ c >= 2 => d # 0
                /\ c >= 1 => d # c
                /\ last_optimization_times' = last_optimization_times
                /\ optimization_tasks' = optimization_tasks
                /\ created' = created
      ]_schedVars

\* a failure result arrives for a subject whose counter is 3 and leaves it at 1
C7_Witness ==
    \E u \in Users :
        /\ Counter(u) = 3
        /\ ENABLED (ExecFinish(u, "failure") /\ user_memory_counts'[u] = 1)

\* C8: an optimizer call that raises is treated like one that returns
\* failure: the subject's counter c becomes floor(c / 2).
C8_RaiseHalvesCounter ==
    [][\A u \in Users :
         ExecFinish(u, "raise") =>
            LET c == Counter(u)
                d == IF u \in DOMAIN user_memory_counts'
                     THEN user_memory_counts'[u] ELSE 0
            IN  2 * d <= c /\ c <= 2 * d + 1
      ]_schedVars

\* C9: whatever the outcome of a task (success, failure, exception), its end
\* removes the subject from running_optimizations and leaves the worker loop
\* and the scheduler running as they were.
C9_TaskEndFreesSubject ==
    [][\A u \in Users, o \in OptimizerOutcomes :
         ExecFinish(u, o) =>
            /\ u \notin running_optimizations'
            /\ running_optimizations' \subseteq running_optimizations
            /\ workerPc' = workerPc
            /\ is_running' = is_running
            /\ periodicPc' = periodicPc
      ]_schedVars

\* on a running scheduler with its worker alive a task ends with an exception
\* and its subject leaves running_optimizations
C9_Witness ==
    \E u \in Users :
        /\ is_running
        /\ workerPc = "get"
        /\ u \in running_optimizations
        /\ ENABLED (ExecFinish(u, "raise") /\ u \notin running_optimizations')

\* C10: a pass of the periodic loop enqueues a periodic task with priority 1
\* for every known subject that is not in flight and whose last successful
\* completion is older than 2 x auto_optimize_interval or that has never
\* completed successfully.
C10_PeriodicPassCoversEverySubject ==
    [][PeriodicTick =>
         \A u \in Users :
            (/\ u \in DOMAIN user_memory_counts \/ Completed(u)
             /\ ~InFlight(u)
             /\ \/ ~Completed(u)
                \/ \E i \in 1..Len(last_optimization_times) :
                      /\ last_optimization_times[i].user_id = u
                      /\ last_optimization_times[i].elapsed > 2 * auto_optimize_interval)
            => \E i \in (Len(optimization_tasks) + 1)..Len(optimization_tasks') :
                  optimization_tasks'[i] =
                     [user_id |-> u, optimization_type |-> "periodic", priority |-> 1]
      ]_schedVars

----------------------------------------------------------------------------
(***************************************************************************)
(* Properties of the session registry.                                     *)
(***************************************************************************)
\* a record is stored under the key
Stored(k) == \E i \in 1..Len(sessions) : sessions[i].session_id = k

\* the record stored under the key
RecordOf(k) == sessions[CHOOSE i \in 1..Len(sessions) : sessions[i].session_id = k]

\* the record stored under the key is expired at this moment
ExpiredNow(k) == Stored(k) /\ now > RecordOf(k).last_activity + timeout_seconds

\* the key is in the owner index of a registry
ListedIn(us, k) == \E u \in DOMAIN us : k \in us[u]

\* the key is in a registry, in its session map or in its owner index
KeptIn(reg, k) ==
    \/ \E i \in 1..Len(reg.sessions) : reg.sessions[i].session_id = k
    \/ ListedIn(reg.user_sessions, k)

\* C11: get_session(key) and get_user_sessions(user_id) return no record that
\* is expired at the time of the call (now > last_activity + timeout_seconds);
\* an expired record they come across is removed from the session map and
\* from the owner index and reported as absent.
C11_NoExpiredRecordReturned ==
    /\ \A k \in SessionIds :
          LET got == get_session(Registry, k, now) IN
          /\ got.result # NoSession =>
                Stored(k) /\ got.result = RecordOf(k) /\ ~ExpiredNow(k)
          /\ ExpiredNow(k) => got.result = NoSession /\ ~KeptIn(got.reg, k)
          /\ ~ExpiredNow(k) => got.reg = Registry
    /\ \A u \in Users :
          LET got == get_user_sessions(Registry, u, now) IN
          /\ \A s \in got.result :
                /\ s.user_id = u
                /\ Stored(s.session_id) /\ RecordOf(s.session_id) = s
                /\ ~ExpiredNow(s.session_id)
          /\ \A k \in SessionIds :
                (Stored(k) /\ RecordOf(k).user_id = u) =>
                   IF ExpiredNow(k)
                   THEN ~KeptIn(got.reg, k) /\ RecordOf(k) \notin got.result
                   ELSE RecordOf(k) \in got.result

\* an expired record is stored and listed, and a get_session of its key
\* removes it from both
C11_Witness ==
    \E k \in SessionIds :
        /\ ExpiredNow(k)
        /\ ListedIn(user_sessions, k)
        /\ ENABLED (/\ CallGetSession(k)
                    /\ Len(sessions') = Len(sessions) - 1
                    /\ ~ListedIn(user_sessions', k))

\* C12: from one ensure_session call of a key to the next, the last_activity
\* of the returned record does not decrease and its request_count grows.
C12_EnsureCountsGrow ==
    [][\A u \in Users :
         (ClientEnsure(u) /\ ensured # NoSession) =>
            /\ ensured'.last_activity >= ensured.last_activity
            /\ ensured'.request_count > ensured.request_count
      ]_vars

\* the records stored in a sequence
RecordsOf(ss) == {ss[i] : i \in 1..Len(ss)}

\* what inserting the new key k for u does to the stored records: below
\* capacity it adds the new record, at capacity it replaces one record of the
\* least last_activity by it
InsertsWithinCapacity(k, u) ==
    LET old == RecordsOf(sessions)
        new == [session_id |-> k, user_id |-> u, created_at |-> now,
                last_activity |-> now, request_count |-> 0]
    IN  IF Len(sessions) < max_sessions
        THEN RecordsOf(sessions') = old \cup {new}
        ELSE \E v \in old :
                /\ \A w \in old : v.last_activity <= w.last_activity
                /\ RecordsOf(sessions') = (old \ {v}) \cup {new}

\* C13: the registry never stores more than max_sessions records; inserting a
\* new key at capacity evicts one record, of the least last_activity, and
\* inserting below capacity evicts none.
C13_CapacityEvictsOldest ==
    /\ [](Len(sessions) <= max_sessions)
    /\ [][\A k \in SessionIds, u \in Users :
            ((CallCreateSession(k, u) \/ CallEnsureSession(k, u)) /\ ~Stored(k)) =>
               InsertsWithinCapacity(k, u)
         ]_vars

\* the registry is full of records of different age, and the insertion of a
\* new key removes the older one
C13_Witness ==
    /\ Len(sessions) = max_sessions
    /\ sessions[1].last_activity > sessions[2].last_activity
    /\ \E k \in SessionIds, u \in Users :
          /\ ~Stored(k)
          /\ ENABLED (/\ CallCreateSession(k, u)
                      /\ Len(sessions') = max_sessions
                      /\ sessions'[1] = sessions[1])

\* C14: a run of the sweep removes the records that are expired at that
\* moment and no other, and leaves the others as they are; while the registry
\* is running an expired record is removed in the end.
C14_SweepRemovesExpired ==
    /\ [][CleanupSweep =>
            /\ sessions' = SelectSeq(sessions,
                              LAMBDA s : ~(now > s.last_activity + timeout_seconds))
            /\ \A k \in SessionIds :
                  ListedIn(user_sessions', k) <=> (Stored(k) /\ ~ExpiredNow(k))
            /\ \A u \in DOMAIN user_sessions' :
                  u \in DOMAIN user_sessions /\ user_sessions'[u] \subseteq user_sessions[u]
         ]_vars
    /\ \A k \in SessionIds :
          (session_is_running /\ ExpiredNow(k)) ~> (~session_is_running \/ ~ExpiredNow(k))

\* the sweep is due while an expired and an unexpired record are stored
C14_Witness ==
    /\ session_is_running
    /\ CleanupTimerDue
    /\ \E k \in SessionIds : ExpiredNow(k)
    /\ \E k \in SessionIds : Stored(k) /\ ~ExpiredNow(k)
    /\ ENABLED (CleanupSweep /\ Len(sessions') = Len(sessions) - 1)

\* the registry without the record of a key
Without(reg, k) ==
    [sessions |-> SelectSeq(reg.sessions, LAMBDA s : s.session_id # k),
     user_sessions |->
        LET left == {u \in DOMAIN reg.user_sessions : reg.user_sessions[u] \ {k} # {}}
        IN  [u \in left |-> reg.user_sessions[u] \ {k}]]

\* C15: a registry that stores an expired record under a key answers every
\* public operation as the registry without that record does.
C15_ExpiredLikeAbsent ==
    \A k \in SessionIds :
        ExpiredNow(k) =>
           LET other == Without(Registry, k) IN
           /\ \A j \in SessionIds :
                 get_session(Registry, j, now).result = get_session(other, j, now).result
           /\ \A u \in Users :
                 get_user_sessions(Registry, u, now).result =
                    get_user_sessions(other, u, now).result
           /\ remove_session(Registry, k).result = remove_session(other, k).result
           /\ get_session_statistics(Registry, now) = get_session_statistics(other, now)

----------------------------------------------------------------------------
(***************************************************************************)
(* Properties of the Neo4j process manager.                                *)
(***************************************************************************)
\* the last call of start() has returned
StartReturned == startPc = "idle" /\ start_result # "none"

\* C16: in embedded mode with the prerequisites present, the port free and the
\* spawn succeeding, a start() whose probes never succeed returns failure no
\* later than startup_timeout plus a small constant (one polling sleep and the
\* grace delay of the termination) after polling began, however long a probe
\* takes, and holds no process on return.
C16_StartupFailsWithinTimeout ==
    (StartReturned /\ start_result = "False" /\ effects.spawns = 1) =>
        /\ neoElapsed <= startup_timeout + PollSeconds + StopGraceSeconds
        /\ process = "None"

\* C17: stop() on a manager that holds no process does nothing: no grace
\* delay and no force-termination command.
C17_StopWithoutProcessDoesNothing ==
    [][(NeoStopCall /\ process = "None") =>
          /\ stopNeoPc' = "idle"
          /\ stop_effects'.grace_delays = 0
          /\ stop_effects'.kills = 0
      ]_vars

\* C18: in embedded mode with the prerequisites present, a start() that finds
\* a listener on the target port spawns no subprocess and issues no
\* termination; it makes one health probe and returns its result.
C18_OccupiedPortIsProbedNotSpawned ==
    (embedded_enabled /\ effects.prereq_ok = "True" /\ effects.listener = "True") =>
        /\ effects.spawns = 0
        /\ effects.grace_delays = 0
        /\ effects.kills = 0
        /\ effects.probes = 1
        /\ StartReturned => start_result = effects.probe_ok

\* C19: a start() that finds the JRE directory or the Neo4j home directory
\* missing (they are required in embedded mode) returns failure at once: no
\* port check, no spawn, no probe, no termination, the process handle as it
\* was.
C19_MissingPrerequisiteFailsAtOnce ==
    [][(NeoStartCall /\ embedded_enabled /\ effects'.prereq_ok = "False") =>
          /\ startPc' = "idle"
          /\ start_result' = "False"
          /\ effects'.port_checks = 0
          /\ effects'.spawns = 0
          /\ effects'.probes = 0
          /\ effects'.grace_delays = 0
          /\ effects'.kills = 0
          /\ process' = process
          /\ process = "None" => process' = "None"
      ]_vars

\* a start() has returned failure after finding a directory missing, the
\* manager holding no process
C19_Witness ==
    /\ embedded_enabled
    /\ StartReturned
    /\ effects.prereq_ok = "False"
    /\ start_result = "False"
    /\ process = "None"

\* C20: with embedded management disabled, start() makes one health probe and
\* returns its result; it checks no prerequisite and no port, spawns nothing,
\* does not poll, terminates nothing and leaves the process handle empty.
C20_DisabledModeProbesOnce ==
    ~embedded_enabled =>
        /\ process = "None"
        /\ startPc \in {"idle", "single_probe"}
        /\ effects.prereq_checks = 0
        /\ effects.port_checks = 0
        /\ effects.spawns = 0
        /\ effects.grace_delays = 0
        /\ effects.kills = 0
        /\ effects.probes <= 1
        /\ startPc = "single_probe" => effects.probes = 1
        /\ StartReturned => effects.probes = 1 /\ start_result = effects.probe_ok

\* with embedded management disabled a start() has returned the success of
\* its probe
C20_Witness ==
    /\ ~embedded_enabled
    /\ StartReturned
    /\ effects.probes = 1
    /\ start_result = "True"

----------------------------------------------------------------------------
\* C21: when the start() of the process manager returns False or raises
\* during startup(), startup() raises: the application is never running and
\* none of the later steps of startup() (default user, MemCube, text-memory
\* scheduler, optimization scheduler) is executed
C21_Neo4jFailureStopsStartup ==
    (neo4j_manager # "None" /\ start_result \in {"False", "raise"}) =>
        /\ ~app_is_running
        /\ app_steps = NoSteps
        /\ ~is_running
        /\ appPc = "neo4j" \/ (appPc = "ended" /\ startup_result = "raised")

\* startup() has raised after a start() that spawned the process and timed out
C21_Witness ==
    /\ startup_result = "raised"
    /\ start_result = "False"
    /\ effects.spawns = 1
    /\ effects.probes > 0

----------------------------------------------------------------------------
\* C22: stop() never raises to its caller, whether closing the driver or the
\* force-termination command fails or not; when it returns, the process
\* handle is empty
C22_StopNeverRaises ==
    /\ [](stop_effects.result # "raised")
    /\ [][(stopNeoPc # "idle" /\ stopNeoPc' = "idle") =>
            (stop_effects'.result = "returned" /\ process' = "None")]_vars

\* stop() has returned after both the closing of the driver and the
\* force-termination command have failed
C22_Witness ==
    /\ stopNeoPc = "idle"
    /\ stop_effects.result = "returned"
    /\ stop_effects.driver_closes = 1
    /\ stop_effects.kills = 1
    /\ stop_effects.errors = 2
    /\ process = "None"

----------------------------------------------------------------------------
\* stop() has been called on a running scheduler and has not returned
Stopping == stopPc \in {"gather", "waiting"}

\* C23: stop() on a running scheduler terminates, whatever the optimizer
\* does: the worker loop and the periodic loop have ended when it waits, it
\* waits at most StopGraceTicks sleeps of one second for
\* running_optimizations to empty, and once it has returned is_running is
\* false and the queue neither loses nor gains a task
C23_StopTerminates ==
    /\ Stopping ~> (stopPc = "done")
    /\ [](stopPc # "idle" => (workerPc = "off" /\ periodicPc = "off"))
    /\ [](wait_count <= StopGraceTicks)
    /\ [](stopPc = "done" => ~is_running)
    /\ [][stopPc = "done" => optimization_tasks' = optimization_tasks]_vars

\* stop() has returned after the whole grace window with an optimizer call
\* still unfinished
C23_Witness ==
    /\ stopPc = "done"
    /\ wait_count = StopGraceTicks
    /\ running_optimizations # {}
    /\ \E u \in Users : awaiting[u] > 0

----------------------------------------------------------------------------
\* C24: the task the worker takes while the concurrency cap is reached goes
\* back into the queue, and on a scheduler that keeps running with an
\* optimizer whose calls all return every queued task is executed in the
\* end: the queued "dedup" task leaves the queue for its execution
C24_RequeuedTaskIsExecuted ==
    /\ [][(workerPc = "get" /\ workerPc' = "sleep") =>
            /\ Len(optimization_tasks') = Len(optimization_tasks)
            /\ optimization_tasks'[Len(optimization_tasks')] = Head(optimization_tasks)
        ]_vars
    /\ DedupQueued ~> ~DedupQueued

----------------------------------------------------------------------------
\* C25: the task the worker takes from the queue while its subject is in
\* running_optimizations is not started: no task coroutine is created for
\* it and it goes back into the queue
C25_RunningSubjectIsRequeued ==
    [][\A u \in Users :
         (/\ WorkerDequeue
          /\ Head(optimization_tasks).user_id = u
          /\ u \in running_optimizations) =>
            /\ created'[u] = created[u]
            /\ optimization_tasks' =
                 Append(Tail(optimization_tasks), Head(optimization_tasks))
      ]_vars

----------------------------------------------------------------------------
\* C26: the worker takes the tasks in the order of their priority: the task
\* its get() returns has the highest priority of all queued tasks, so that a
\* priority-2 task is never left waiting behind a priority-1 task
C26_HighestPriorityFirst ==
    [][WorkerDequeue =>
         \A i \in 1..Len(optimization_tasks) :
             optimization_tasks[i].priority <= Head(optimization_tasks).priority
      ]_vars

----------------------------------------------------------------------------
\* C27: in every state of the scheduler (never started, running, stopped) a
\* call notify_memory_added(u) that can be made raises the counter of u by
\* exactly one and leaves the counter of every other subject as it was
C27_NotifyCountsInEveryState ==
    \A u \in Users :
        ENABLED notify_memory_added(u) =>
            ENABLED (/\ notify_memory_added(u)
                     /\ CountOf(user_memory_counts', u) =
                            CountOf(user_memory_counts, u) + 1
                     /\ \A v \in Users \ {u} :
                            CountOf(user_memory_counts', v) =
                               CountOf(user_memory_counts, v))

----------------------------------------------------------------------------
\* the record the registry of a call's result stores under the key, if any
StoredIn(reg, k) == SessionsGet(reg.sessions, k)

\* C28: a record that has expired is gone for good.  While it is still stored,
\* get_session of its key returns none, update_session_activity returns false
\* and updates nothing, get_user_sessions does not list it, and ensure_session
\* of its key returns and stores a new record with created_at of this moment
\* (later than that of the expired record) and request_count 0.  No step of
\* the registry changes the expired record: after the step it is stored as it
\* was and still expired, or it is not stored, or the key holds a record
\* created in this step.
C28_ExpiredRecordIsGone ==
    /\ [](\A k \in SessionIds :
            ExpiredNow(k) =>
               /\ get_session(Registry, k, now).result = NoSession
               /\ update_session_activity(Registry, k, now).result = FALSE
               /\ StoredIn(update_session_activity(Registry, k, now).reg, k) = NoSession
               /\ \A u \in Users :
                     /\ \A s \in get_user_sessions(Registry, u, now).result :
                           s.session_id # k
                     /\ LET made == ensure_session(Registry, k, u, now) IN
                        /\ made.result.session_id = k
                        /\ made.result.user_id = u
                        /\ made.result.created_at = now
                        /\ made.result.created_at > RecordOf(k).created_at
                        /\ made.result.last_activity = now
                        /\ made.result.request_count = 0
                        /\ StoredIn(made.reg, k) = made.result)
    /\ [][\A k \in SessionIds :
            ExpiredNow(k) =>
               \/ ~Stored(k)'
               \/ RecordOf(k)' = RecordOf(k) /\ ExpiredNow(k)'
               \/ /\ RecordOf(k)'.created_at = now
                  /\ RecordOf(k)'.created_at > RecordOf(k).created_at
                  /\ RecordOf(k)'.request_count = 0
         ]_vars

\* a record that was used has expired and is still stored, and
\* ensure_session of its key puts a new record with request_count 0 in its
\* place
C28_Witness ==
    \E k \in SessionIds, u \in Users :
        /\ ExpiredNow(k)
        /\ RecordOf(k).request_count > 0
        /\ ENABLED (/\ CallEnsureSession(k, u)
                    /\ StoredIn(Registry, k)'.request_count = 0
                    /\ StoredIn(Registry, k)'.created_at = now)

----------------------------------------------------------------------------
\* C29: reset_user_memory_count(u) sets the counter of u to 0 and changes
\* nothing else: the counters of the other subjects, the queue, the in-flight
\* set and the last-success times stay as they are, no task coroutine is
\* created or ended, and for a subject without a counter nothing changes at
\* all (no counter is created).
C29_ResetOnlyResets ==
    [][\A u \in Users :
         reset_user_memory_count(u) =>
            /\ DOMAIN user_memory_counts' = DOMAIN user_memory_counts
            /\ \A v \in DOMAIN user_memory_counts :
                  user_memory_counts'[v] = IF v = u THEN 0 ELSE user_memory_counts[v]
            /\ optimization_tasks' = optimization_tasks
            /\ running_optimizations' = running_optimizations
            /\ last_optimization_times' = last_optimization_times
            /\ created' = created
            /\ awaiting' = awaiting
            /\ is_running' = is_running
      ]_vars

\* two subjects have counted writes, a task is queued and one is in flight,
\* and the reset of one subject brings its counter to 0
C29_Witness ==
    \E u \in Users :
        /\ Counter(u) > 0
        /\ \E v \in Users \ {u} : Counter(v) > 0
        /\ optimization_tasks # <<>>
        /\ running_optimizations # {}
        /\ ENABLED (reset_user_memory_count(u) /\ user_memory_counts'[u] = 0)

----------------------------------------------------------------------------
\* the record was created and never touched again
NeverTouched(session) ==
    session.last_activity = session.created_at /\ session.request_count = 0

\* C30: an expired session leaves the registry exactly once.  A record that
\* was created and never touched is reported as absent by get_session from
\* timeout_seconds + 1 after its creation on; that get_session takes exactly
\* this record out of the registry (active_sessions is one less), and the
\* sweep that follows takes out the other expired records only, as it would
\* have without the get_session.  remove_session of a key that is not stored
\* returns false and changes nothing, and a sweep over a registry without
\* expired records changes nothing.
C30_ExpiredLeavesOnce ==
    /\ [](\A k \in SessionIds :
            /\ (Stored(k) /\ NeverTouched(RecordOf(k))) =>
                  (ExpiredNow(k) <=> now >= RecordOf(k).created_at + timeout_seconds + 1)
            /\ ExpiredNow(k) =>
                  LET got == get_session(Registry, k, now)
                      swept == _cleanup_expired_sessions(got.reg, now)
                  IN  /\ got.result = NoSession
                      /\ got.reg = Without(Registry, k)
                      /\ get_session_statistics(got.reg, now).active_sessions =
                            get_session_statistics(Registry, now).active_sessions - 1
                      /\ swept = _cleanup_expired_sessions(Registry, now)
                      /\ get_session_statistics(swept, now).active_sessions =
                            get_session_statistics(Registry, now).active_sessions
                              - get_session_statistics(Registry, now).expired_sessions
                      /\ remove_session(got.reg, k) = [reg |-> got.reg, result |-> FALSE]
            /\ ~Stored(k) =>
                  remove_session(Registry, k) = [reg |-> Registry, result |-> FALSE]
            /\ (\A j \in SessionIds : ~ExpiredNow(j)) =>
                  _cleanup_expired_sessions(Registry, now) = Registry)
    /\ [][\A k \in SessionIds :
            (CallGetSession(k) /\ ExpiredNow(k)) =>
               /\ Len(sessions') = Len(sessions) - 1
               /\ ~Stored(k)'
               /\ ~ListedIn(user_sessions', k)
         ]_vars

\* a record that was never touched is stored timeout_seconds + 1 after its
\* creation, with another expired record beside it; get_session of its key
\* takes it out, and the sweep that is due would take out both
C30_Witness ==
    \E k \in SessionIds :
        /\ Stored(k)
        /\ NeverTouched(RecordOf(k))
        /\ now = RecordOf(k).created_at + timeout_seconds + 1
        /\ \E j \in SessionIds \ {k} : ExpiredNow(j)
        /\ CleanupTimerDue
        /\ ENABLED (CallGetSession(k) /\ Len(sessions') = Len(sessions) - 1)
        /\ ENABLED (CleanupSweep /\ sessions' = <<>>)

----------------------------------------------------------------------------
(***************************************************************************)
(* Further properties of the process manager.                              *)
(***************************************************************************)
\* start() has spawned the process and returns in this step
PollingStartReturns == effects.spawns = 1 /\ startPc # "idle" /\ startPc' = "idle"

----------------------------------------------------------------------------
(***************************************************************************)
(* Further properties of the session registry.                             *)
(***************************************************************************)
\* C32: after any sequence of calls, capacity evictions and sweeps the owner
\* index agrees with the session map: k is in user_sessions[u] exactly when a
\* record is stored under k and its user_id is u; no entry of user_sessions
\* is an empty set, and no key is stored twice.
C32_OwnerIndexConsistent ==
    /\ \A u \in Users, k \in SessionIds :
          (u \in DOMAIN user_sessions /\ k \in user_sessions[u]) <=>
             (Stored(k) /\ RecordOf(k).user_id = u)
    /\ DOMAIN user_sessions \subseteq Users
    /\ \A u \in DOMAIN user_sessions :
          user_sessions[u] # {} /\ user_sessions[u] \subseteq SessionIds
    /\ \A i, j \in 1..Len(sessions) :
          sessions[i].session_id = sessions[j].session_id => i = j

\* the registry is full, with records of two owners, and the insertion of a
\* new key evicts the only record of one owner, whose entry of the owner
\* index goes with it
C32_Witness ==
    /\ Len(sessions) = max_sessions
    /\ Cardinality(DOMAIN user_sessions) = 2
    /\ \E k \in SessionIds, u \in Users :
          /\ ~Stored(k)
          /\ ENABLED (/\ CallCreateSession(k, u)
                      /\ DOMAIN user_sessions' = {u}
                      /\ user_sessions'[u] = {k, sessions'[1].session_id})

----------------------------------------------------------------------------
\* the key holds a record that is not expired and belongs to another subject
OwnedByOther(k, u2) == Stored(k) /\ ~ExpiredNow(k) /\ RecordOf(k).user_id # u2

\* C33: ensure_session(k, u2) on a stored record that is not expired and is
\* owned by another subject u1 sets its last_activity to the time of the call
\* and adds one to its request_count, and nothing else: the record returned
\* and stored has owner u1, the other records and the owner index are as
\* they were, and afterwards get_user_sessions lists the record under u1 and
\* not under u2.
C33_EnsureKeepsOwner ==
    /\ [](\A k \in SessionIds, u2 \in Users :
            OwnedByOther(k, u2) =>
               LET made == ensure_session(Registry, k, u2, now)
                   refreshed == [RecordOf(k) EXCEPT !.last_activity = now,
                                                    !.request_count = @ + 1]
               IN  /\ made.result = refreshed
                   /\ made.result.user_id = RecordOf(k).user_id
                   /\ made.reg.user_sessions = user_sessions
                   /\ Len(made.reg.sessions) = Len(sessions)
                   /\ \A i \in 1..Len(sessions) :
                         made.reg.sessions[i] =
                            IF sessions[i].session_id = k THEN refreshed
                            ELSE sessions[i]
                   /\ refreshed \in
                         get_user_sessions(made.reg, RecordOf(k).user_id, now).result
                   /\ \A s \in get_user_sessions(made.reg, u2, now).result :
                         s.session_id # k)
    /\ [][\A k \in SessionIds, u2 \in Users :
            (CallEnsureSession(k, u2) /\ OwnedByOther(k, u2)) =>
               /\ user_sessions' = user_sessions
               /\ RecordOf(k)' = [RecordOf(k) EXCEPT !.last_activity = now,
                                                     !.request_count = @ + 1]
         ]_vars

\* a record of one subject, last used earlier, is stored beside a record of
\* the other subject, and ensure_session of its key for the other subject
\* refreshes it and leaves the owner index alone
C33_Witness ==
    \E k \in SessionIds, u2 \in Users :
        /\ OwnedByOther(k, u2)
        /\ RecordOf(k).last_activity < now
        /\ u2 \in DOMAIN user_sessions
        /\ ENABLED (/\ CallEnsureSession(k, u2)
                    /\ user_sessions' = user_sessions
                    /\ \E i \in 1..Len(sessions) :
                          /\ sessions'[i].session_id = k
                          /\ sessions'[i].user_id # u2
                          /\ sessions'[i].last_activity = now)

----------------------------------------------------------------------------
(***************************************************************************)
(* Further properties of the optimization scheduler.                       *)
(***************************************************************************)
\* C34: running_optimizations is at every instant the set of the subjects of
\* which a task is executing (has begun and not ended), so that a subject
\* leaves it only when none of its tasks is executing any more
C34_RunningSetIsExact ==
    running_optimizations = {u \in Users : awaiting[u] > 0}

----------------------------------------------------------------------------
\* C35: on a running scheduler a call notify_memory_added(u) made while a
\* task of u is executing adds one to the counter of u and enqueues nothing; a task of u that ends in
\* success sets the counter of u to 0, whatever was counted meanwhile, so
\* that the next threshold_triggered task of u needs auto_optimize_threshold
\* further calls.
C35_CountedWhileExecutingIsDiscarded ==
    /\ [](\A u \in Users :
            (is_running /\ awaiting[u] > 0 /\ ENABLED notify_memory_added(u)) =>
               ENABLED (/\ notify_memory_added(u)
                        /\ Counter(u)' = Counter(u) + 1
                        /\ optimization_tasks' = optimization_tasks))
    /\ [][\A u \in Users :
            ExecFinish(u, "success") => Counter(u)' = 0
         ]_vars
    /\ [][\A u \in Users :
            (notify_memory_added(u) /\ Counter(u) + 1 < auto_optimize_threshold) =>
               optimization_tasks' = optimization_tasks
         ]_vars

----------------------------------------------------------------------------
\* C36: the shutdown event, once set by stop(), stays set, and the manager
\* cannot be started again: a later start() in embedded mode that gets as
\* far as the spawn leaves the polling loop at its first iteration without a
\* probe, runs the termination (grace delay, taskkill) and returns False
\* with the process handle empty.
C36_NoRestartAfterStop ==
    /\ [][NeoStopCall => shutdown_event']_vars
    /\ [][shutdown_event => shutdown_event']_vars
    /\ [][(NeoStartCall /\ shutdown_event /\ effects'.spawns = 1) =>
            /\ startPc' = "grace"
            /\ startLeft' = StopGraceSeconds
            /\ effects'.probes = 0
            /\ effects'.grace_delays = 1
            /\ effects'.kills = 0
            /\ start_result' = "none"
         ]_vars
    /\ [][(startPc = "grace" /\ startPc' # "grace") =>
            /\ startPc' = "kill"
            /\ effects'.kills = effects.kills + 1
            /\ effects'.probes = effects.probes
         ]_vars
    /\ [][(startPc = "kill" /\ startPc' # "kill") =>
            /\ startPc' = "idle"
            /\ start_result' = "False"
            /\ process' = "None"
            /\ effects' = effects
         ]_vars

\* a stop() has returned, and a start() called now spawns the process and
\* goes into the termination without a probe
C36_Witness ==
    /\ embedded_enabled
    /\ shutdown_event
    /\ stopNeoPc = "idle"
    /\ stop_effects.result = "returned"
    /\ ENABLED (/\ NeoStartCall
                /\ process' = "Popen"
                /\ effects'.spawns = 1
                /\ effects'.probes = 0
                /\ startPc' = "grace")

----------------------------------------------------------------------------
\* C37: when stop() is called while start() is polling, the next iteration
\* of the loop makes no probe and goes into the termination, whatever is
\* left of startup_timeout, and start() returns False with the process
\* handle empty.
C37_ConcurrentStopFailsStart ==
    /\ [][(NeoWaitSleepDone /\ shutdown_event) =>
            /\ startPc' = "grace"
            /\ effects'.probes = effects.probes
         ]_vars
    /\ [][(PollingStartReturns /\ shutdown_event) =>
            /\ start_result' = "False"
            /\ process' = "None"
         ]_vars

----------------------------------------------------------------------------
(***************************************************************************)
(* Properties of the life cycles.                                          *)
(***************************************************************************)
\* the tasks of the sweep loop that can still sweep
LiveLoops == {i \in 1..Len(cleanup_tasks) : cleanup_tasks[i] \in {"created", "sleep"}}

\* C38: the SessionManager has at most one sweep loop that can still sweep,
\* the task of its last start(), and only while it is running.  A start()
\* on a running manager creates no task.  A sweep runs only while the
\* manager is running, so none runs from a stop() on until a later start();
\* when the await of stop() is over the task it cancelled, and every task
\* before it, is done.  A stop() on a manager that was never started
\* changes nothing.  A sweep that raises leaves its loop sleeping for the
\* next one.
C38_OneSweepLoop ==
    /\ [](Cardinality(LiveLoops) <= 1)
    /\ [](\A i \in LiveLoops : i = Len(cleanup_tasks) /\ session_is_running)
    /\ [][(LoopStart /\ session_is_running) => cleanup_tasks' = cleanup_tasks]_vars
    /\ [][(\E i \in 1..Len(cleanup_tasks), outcome \in SweepOutcomes :
             LoopSweep(i, outcome)) => session_is_running
         ]_vars
    /\ [][LoopStopReturns =>
            \A i \in 1..stop_awaits : cleanup_tasks'[i] = "done"
         ]_vars
    /\ [][(LoopStopCall /\ cleanup_tasks = <<>>) =>
            /\ cleanup_tasks' = <<>>
            /\ stop_awaits' = 0
            /\ ~session_is_running'
            /\ sessions' = sessions
         ]_vars
    /\ [][\A i \in 1..Len(cleanup_tasks) :
            (LoopSweep(i, "raise") /\ session_is_running) =>
               cleanup_tasks'[i] = "sleep"
         ]_vars

\* the manager was stopped and started again: the task of the first start()
\* is done, the task of the second sleeps, and a sweep of it that raises
\* after its first removal leaves it sleeping
C38_Witness ==
    /\ Len(cleanup_tasks) = 2
    /\ cleanup_tasks[1] = "done"
    /\ cleanup_tasks[2] = "sleep"
    /\ session_is_running
    /\ stop_awaits = 0
    /\ Cardinality({k \in SessionIds : ExpiredNow(k)}) = 2
    /\ ENABLED (/\ LoopSweep(2, "raise")
                /\ Len(sessions') = 1
                /\ cleanup_tasks'[2] = "sleep")

----------------------------------------------------------------------------
\* the place of a step in shutdown()
StepRank(step) ==
    CASE step = "optimization_scheduler.stop" -> 1
      [] step = "text_memory_scheduler.stop" -> 2
      [] step = "persist" -> 3
      [] step = "neo4j_manager.stop" -> 4

\* the steps shutdown() has attempted
AttemptedSteps == {shutdown_log[i].step : i \in DOMAIN shutdown_log}

----------------------------------------------------------------------------
\* C40: when auto-optimization is enabled (an OptimizationScheduler was
\* created) and the text-memory scheduler initialises and starts
\* successfully, startup() ends with the optimization scheduler kept and
\* started (is_running true), so that a later add_memory finds
\* self.optimization_scheduler and calls its notify_memory_added
C40_StartupStartsScheduler ==
    [][(/\ AppSchedulersStarted
        /\ optimization_scheduler # "None"
        /\ text_memory_scheduler' # "None") =>
           /\ optimization_scheduler' # "None"
           /\ is_running'
           /\ app_steps'.optimization_scheduler_start = 1
      ]_vars

====
